---- MODULE Spec2Model ----
(***************************************************************************)
(* A state-machine model of MemoryPool (memory_pool.h / memory_pool.cpp):  *)
(* block headers, the address-ordered best-fit free list with its size     *)
(* index, the segregated class lists, the three fixed-size slab allocators *)
(* with the per-thread magazines, the scope stack and the thread-local     *)
(* statistics.  Memory is a map from header addresses to header records;   *)
(* every list is followed through the next/prev fields of the headers, as  *)
(* the code does, so that a block linked twice behaves as it does in the   *)
(* program.                                                                *)
(***************************************************************************)
EXTENDS Integers, Sequences, FiniteSets, TLC

(***************************************************************************)
(* Bounds of the model.  The capacities below are scaled down from the     *)
(* program's values so that the states the properties speak about are      *)
(* reached within a few operations:                                        *)
(*   size_t is WordBits wide instead of 64 bits (arithmetic is mod 2^w);   *)
(*   POOL_SIZE is PoolSizeKiB * 1024 instead of 1024 * 1024;               *)
(*   a slab chunk is SlabChunkUnits * 64 bytes instead of 64 * 1024;       *)
(*   the magazine limits and refill batches stand for 256 and 64/32/32.    *)
(* The size thresholds, class sizes, header size and alignment are the     *)
(* program's own values.                                                   *)
(***************************************************************************)
WordBits == 20
PoolSizeKiB == 8
SlabChunkUnits == 5
SMALL_CACHE_LIMIT == 2
MEDIUM_CACHE_LIMIT == 2
LARGE_CACHE_LIMIT == 2
SMALL_REFILL_BATCH == 1
MEDIUM_REFILL_BATCH == 1
LARGE_REFILL_BATCH == 1
MaxAllocs == 4
MaxAllocsWide == 2
MaxScopeDepth == 2
MaxScopeDepthWide == 1
MaxAllocsShared == 3
MaxAllocsMaint == 3
MaxAllocsAligned == 2
MaxAllocsPair == 3
MaxAllocsClasses == 3
MaxAllocsPool == 3
MaxAllocsScoped == 2
MaxAllocsRoundTrip == 4

(***************************************************************************)
(* Program constants.                                                      *)
(***************************************************************************)
NULL == 0
ALIGNMENT == 16
HEADER_SIZE == 32
MIN_SPLIT_PAYLOAD == 32
POINTER_SIZE == 8
WORD == 2 ^ WordBits
SIZE_MAX == WORD - 1
POOL_SIZE == PoolSizeKiB * 1024
CHUNK_SIZE == SlabChunkUnits * 64
SEGREGATED_CLASS_SIZES == <<32, 64, 128, 256, 512, 1024, 2048, 4096>>
SEGREGATED_CLASS_COUNT == Len(SEGREGATED_CLASS_SIZES)
BLOCK_SIZE == <<32, 128, 256>>
CACHE_LIMIT == <<SMALL_CACHE_LIMIT, MEDIUM_CACHE_LIMIT, LARGE_CACHE_LIMIT>>
REFILL_BATCH == <<SMALL_REFILL_BATCH, MEDIUM_REFILL_BATCH, LARGE_REFILL_BATCH>>
Strategies == {"BEST_FIT", "FIXED_SIZE", "POOL_BASED", "SEGREGATED"}
\* Threads call in the sequential specifications; AllThreads are the threads
\* of the process, each with its own magazines and counters
Threads == {1}
AllThreads == {1, 2}

(***************************************************************************)
(* Where operator new[] places the chunks: 16-byte aligned, pairwise       *)
(* disjoint and never adjacent.  Pool chunk k lies at 2k * POOL_SIZE; the  *)
(* chunks of the slab allocators lie below the first pool chunk.  A        *)
(* backing allocator that keeps its bookkeeping out of band may also hand  *)
(* out the pool chunks back to back (ContiguousChunkBase); the pool's      *)
(* field contiguous says which of the two it runs on.                      *)
(***************************************************************************)
PoolChunkBase(k) == 2 * k * POOL_SIZE
ContiguousChunkBase(k) == (k + 1) * POOL_SIZE
SlabChunkBase(s, j) == (3 * (j - 1) + s) * 2 * CHUNK_SIZE

\* The chunks of a second pool of the process lie in the upper half of the
\* address space: arena 0 is the lower half, arena 1 the upper
ArenaBase(arena) == arena * (WORD \div 2)

(***************************************************************************)
(* size_t arithmetic and small helpers.                                    *)
(***************************************************************************)
Wrap(n) == n % WORD
Put(f, k, v) == [x \in (DOMAIN f) \cup {k} |-> IF x = k THEN v ELSE f[x]]
Del(f, k) == [x \in (DOMAIN f) \ {k} |-> f[x]]
Last(s) == s[Len(s)]
Range(s) == {s[i] : i \in DOMAIN s}
Front(s) == SubSeq(s, 1, Len(s) - 1)
RemoveAt(s, i) == SubSeq(s, 1, i - 1) \o SubSeq(s, i + 1, Len(s))
InsertAt(s, i, e) == SubSeq(s, 1, i - 1) \o <<e>> \o SubSeq(s, i, Len(s))

\* Let(val, F) is F(val): the value of a local variable of the code, computed
\* once and named by the parameter of F
Let(val, F(_)) == F(val)

\* A rounding that leaves the size as it is
align_size_Identity(size) == size

\* MemoryBlock::align_size
align_size(size) ==
  LET s == Wrap(size + ALIGNMENT - 1) IN s - (s % ALIGNMENT)

\* MemoryBlock::data and MemoryPool::ptr_to_block
data(block) == block + HEADER_SIZE
ptr_to_block(ptr) == ptr - HEADER_SIZE

\* MemoryBlock::init: a header written at ptr.  Headers that the new one
\* partly overwrites are no longer headers.
InitBlock(blks, ptr, size, strat) ==
  LET kept == {a \in DOMAIN blks : a + HEADER_SIZE <= ptr \/ ptr + HEADER_SIZE <= a}
  IN  [a \in kept \cup {ptr} |->
         IF a = ptr
         THEN [next |-> NULL, prev |-> NULL, size |-> Wrap(size - HEADER_SIZE + WORD),
               is_free |-> TRUE, strategy |-> strat]
         ELSE blks[a]]

\* AllocationStats: the thread-local counters of thread t
StatAlloc(H, t, bytes) ==
  [H EXCEPT !.stats[t].allocations = Wrap(@ + 1),
            !.stats[t].bytes_allocated = Wrap(@ + bytes)]

\* A release that forgets to count the deallocation
StatDealloc_BytesOnly(H, t, bytes) ==
  [H EXCEPT !.stats[t].bytes_allocated = IF @ >= bytes THEN @ - bytes ELSE 0]

\* AllocationStats: deallocations++ and the clamped subtraction
StatDealloc(H, t, bytes) ==
  [H EXCEPT !.stats[t].deallocations = Wrap(@ + 1),
            !.stats[t].bytes_allocated = IF @ >= bytes THEN @ - bytes ELSE 0]

(***************************************************************************)
(* The size index: std::multimap<size_t, MemoryBlock*> as the sequence of  *)
(* its entries in key order (equal keys in insertion order), each entry    *)
(* with the identity of its node; size_lookup maps a block to the node its *)
(* iterator designates.                                                    *)
(***************************************************************************)
FreshNode(index) ==
  CHOOSE n \in 1..(Len(index) + 1) : \A i \in 1..Len(index) : index[i].id # n

\* std::multimap::lower_bound: the first position whose key is >= size, 0 for end()
LowerBound(index, size) ==
  IF \E i \in 1..Len(index) : index[i].size >= size
  THEN CHOOSE i \in 1..Len(index) :
         /\ index[i].size >= size
         /\ \A j \in 1..(i - 1) : index[j].size < size
  ELSE 0

\* std::multimap::emplace: the position after every entry whose key is <= size
UpperBound(index, size) ==
  Cardinality({i \in 1..Len(index) : index[i].size <= size}) + 1

\* MemoryPool::add_to_size_index
add_to_size_index(H, block) ==
  IF block = NULL THEN H
  ELSE LET key  == H.blocks[block].size
           node == FreshNode(H.size_index)
       IN  [H EXCEPT !.size_index = InsertAt(@, UpperBound(@, key),
                                             [size |-> key, block |-> block, id |-> node]),
                     !.size_lookup = Put(@, block, node)]

\* MemoryPool::remove_from_size_index
remove_from_size_index(H, block) ==
  IF block = NULL \/ block \notin DOMAIN H.size_lookup THEN H
  ELSE LET node == H.size_lookup[block]
           pos  == CHOOSE i \in 1..Len(H.size_index) : H.size_index[i].id = node
       IN  [H EXCEPT !.size_index = RemoveAt(@, pos),
                     !.size_lookup = Del(@, block)]

(***************************************************************************)
(* The best-fit free list.                                                 *)
(***************************************************************************)
\* The scan of insert_free_block: while (current && current < block).  The
\* scan reads memory only, so visiting more nodes than there are headers
\* means it is on a cycle and never ends.
RECURSIVE ScanFreeList(_, _, _, _, _)
ScanFreeList(blks, prev, current, block, fuel) ==
  IF current # NULL /\ current < block
  THEN IF fuel = 0
       THEN [prev |-> prev, current |-> current, hung |-> TRUE]
       ELSE ScanFreeList(blks, current, blks[current].next, block, fuel - 1)
  ELSE [prev |-> prev, current |-> current, hung |-> FALSE]

\* The two merge tests of coalesce_neighbors
CanMergeNext(H, current) ==
  LET next == H.blocks[current].next
  IN  /\ next # NULL
      /\ H.blocks[next].is_free
      /\ H.blocks[next].strategy = "BEST_FIT"
      /\ current + HEADER_SIZE + H.blocks[current].size = next
\* Variant that never merges with the block before
CanMergePrev_Never(H, current) == FALSE
CanMergePrev(H, current) ==
  LET prev == H.blocks[current].prev
  IN  /\ prev # NULL
      /\ H.blocks[prev].is_free
      /\ H.blocks[prev].strategy = "BEST_FIT"
      /\ prev + HEADER_SIZE + H.blocks[prev].size = current

\* The body of either merge: keeper->size += gone->size + sizeof(MemoryBlock);
\* keeper->next = gone->next; if (gone->next) gone->next->prev = keeper.  The
\* header of the absorbed block is unlinked and stays in memory as it was.
Absorb(H, keeper, gone) ==
  LET gn == H.blocks[gone].next
      B1 == [H.blocks EXCEPT
               ![keeper].size = Wrap(@ + H.blocks[gone].size + HEADER_SIZE),
               ![keeper].next = gn]
  IN  [H EXCEPT !.blocks = IF gn # NULL THEN [B1 EXCEPT ![gn].prev = keeper] ELSE B1]

\* MemoryPool::coalesce_neighbors
coalesce_neighbors(H, block) ==
  IF block = NULL \/ H.blocks[block].strategy # "BEST_FIT" THEN H
  ELSE
    Let(remove_from_size_index(H, block), LAMBDA H1 :
    Let(IF CanMergeNext(H1, block)
        THEN Absorb(remove_from_size_index(H1, H1.blocks[block].next),
                    block, H1.blocks[block].next)
        ELSE H1, LAMBDA H2 :
      IF CanMergePrev(H2, block)
      THEN add_to_size_index(
             Absorb(remove_from_size_index(H2, H2.blocks[block].prev),
                    H2.blocks[block].prev, block),
             H2.blocks[block].prev)
      ELSE add_to_size_index(H2, block)))

\* The linking of insert_free_block: block goes between prev and current
LinkFreeBlock(H, blks, prev, current, block) ==
  LET B2 == [blks EXCEPT ![block].prev = prev, ![block].next = current]
      B3 == IF current # NULL THEN [B2 EXCEPT ![current].prev = block] ELSE B2
      B4 == IF prev # NULL THEN [B3 EXCEPT ![prev].next = block] ELSE B3
  IN  [H EXCEPT !.blocks = B4,
                !.free_list = IF prev # NULL THEN @ ELSE block]

\* MemoryPool::insert_free_block
insert_free_block(H, block, strat, allow_coalesce) ==
  IF block = NULL THEN H
  ELSE
    Let([H.blocks EXCEPT ![block].is_free = TRUE, ![block].strategy = strat], LAMBDA B1 :
    Let(ScanFreeList(B1, NULL, H.free_list, block, Cardinality(DOMAIN B1)), LAMBDA scan :
      IF scan.hung THEN [H EXCEPT !.blocks = B1, !.hung = TRUE]
      ELSE
        Let(add_to_size_index(LinkFreeBlock(H, B1, scan.prev, scan.current, block), block),
            LAMBDA H2 :
          IF allow_coalesce /\ strat = "BEST_FIT"
          THEN coalesce_neighbors(H2, block)
          ELSE H2)))

\* MemoryPool::detach_free_block
detach_free_block(H, block) ==
  IF block = NULL THEN H
  ELSE
    Let(remove_from_size_index(H, block), LAMBDA H1 :
      LET prev == H1.blocks[block].prev
          next == H1.blocks[block].next
          B1 == IF prev # NULL THEN [H1.blocks EXCEPT ![prev].next = next] ELSE H1.blocks
          fl == IF prev = NULL /\ H1.free_list = block THEN next ELSE H1.free_list
          B2 == IF next # NULL THEN [B1 EXCEPT ![next].prev = prev] ELSE B1
      IN  [H1 EXCEPT !.blocks = [B2 EXCEPT ![block].prev = NULL, ![block].next = NULL,
                                           ![block].is_free = FALSE],
                     !.free_list = fl])

\* MemoryPool::add_new_chunk
add_new_chunk(H) ==
  LET chunk == ArenaBase(H.arena) +
               (IF H.contiguous
                THEN ContiguousChunkBase(Len(H.memory_chunks) + 1)
                ELSE PoolChunkBase(Len(H.memory_chunks) + 1))
      H1 == [H EXCEPT !.memory_chunks = Append(@, chunk),
                      !.blocks = InitBlock(@, chunk, POOL_SIZE, "BEST_FIT")]
  IN  insert_free_block(H1, chunk, "BEST_FIT", TRUE)

\* MemoryPool::deallocate_block (the caller is thread t)
deallocate_block(H, t, block) ==
  IF block = NULL THEN H
  ELSE LET freed_size == H.blocks[block].size
       IN  StatDealloc(insert_free_block(H, block, "BEST_FIT", TRUE), t, freed_size)

(***************************************************************************)
(* FixedSizeAllocator<BlockSize>: slab s \in 1..3 serves BLOCK_SIZE[s].    *)
(***************************************************************************)
\* FixedSizeAllocator::add_new_chunk
slab_add_new_chunk(H, s) ==
  LET chunk == ArenaBase(H.arena) + SlabChunkBase(s, Len(H.slab_chunks[s]) + 1)
      stride == BLOCK_SIZE[s] + HEADER_SIZE
      num_blocks == CHUNK_SIZE \div stride
      at(i) == chunk + i * stride
      fresh == {at(i) : i \in 0..(num_blocks - 1)}
      old == H.slab_free_list[s]
      B1 == [a \in (DOMAIN H.blocks) \cup fresh |->
               IF a \in fresh
               THEN [next |-> IF a = chunk THEN old ELSE a - stride, prev |-> NULL,
                     size |-> BLOCK_SIZE[s], is_free |-> TRUE, strategy |-> "FIXED_SIZE"]
               ELSE H.blocks[a]]
  IN  [H EXCEPT !.slab_chunks[s] = Append(@, chunk),
                !.blocks = B1,
                !.slab_free_list[s] = IF num_blocks > 0 THEN at(num_blocks - 1) ELSE old]

\* FixedSizeAllocator::allocate
slab_allocate(H, t, s) ==
  Let(IF H.slab_free_list[s] = NULL THEN slab_add_new_chunk(H, s) ELSE H, LAMBDA H1 :
    LET block == H1.slab_free_list[s]
    IN  [H |-> StatAlloc([H1 EXCEPT !.slab_free_list[s] = H1.blocks[block].next,
                                    !.blocks[block].is_free = FALSE,
                                    !.blocks[block].strategy = "FIXED_SIZE"],
                         t, H1.blocks[block].size),
         result |-> data(block)])

\* FixedSizeAllocator::deallocate
slab_deallocate(H, t, s, ptr) ==
  IF ptr = NULL THEN H
  ELSE LET block == ptr_to_block(ptr)
           H1 == [H EXCEPT !.blocks[block].is_free = TRUE,
                           !.blocks[block].next = H.slab_free_list[s],
                           !.slab_free_list[s] = block]
       IN  StatDealloc(H1, t, H1.blocks[block].size)

\* FixedSizeAllocator::allocate_raw is called by the refill functions but is
\* not part of the sources at hand: it hands out the head of the slab's free
\* list without touching the statistics, and null when the list is empty.
slab_allocate_raw(H, s) ==
  LET block == H.slab_free_list[s]
  IN  IF block = NULL THEN [H |-> H, result |-> NULL]
      ELSE [H |-> [H EXCEPT !.slab_free_list[s] = H.blocks[block].next,
                            !.blocks[block].is_free = FALSE],
            result |-> data(block)]

\* FixedSizeAllocator::deallocate_raw: the block goes back on the slab's free
\* list; as in allocate_raw the statistics are left alone
slab_deallocate_raw(H, s, ptr) ==
  IF ptr = NULL THEN H
  ELSE LET block == ptr_to_block(ptr)
       IN  [H EXCEPT !.blocks[block].is_free = TRUE,
                     !.blocks[block].next = H.slab_free_list[s],
                     !.slab_free_list[s] = block]


(***************************************************************************)
(* The thread-local magazines: thread_cache[t][s] is small_blocks,         *)
(* medium_blocks or large_blocks of thread t.                              *)
(***************************************************************************)
\* MemoryPool::refill_small_cache / refill_medium_cache / refill_large_cache
RECURSIVE refill_cache(_, _, _, _)
refill_cache(H, t, s, i) ==
  IF i < REFILL_BATCH[s] /\ Len(H.thread_cache[t][s]) < CACHE_LIMIT[s]
  THEN Let(slab_allocate_raw(H, s), LAMBDA r :
         LET block == ptr_to_block(r.result)
         IN  IF r.result = NULL THEN H
             ELSE refill_cache([r.H EXCEPT !.blocks[block].is_free = TRUE,
                                           !.blocks[block].next = NULL,
                                           !.blocks[block].prev = NULL,
                                           !.thread_cache[t][s] = Append(@, r.result)],
                               t, s, i + 1))
  ELSE H

\* Variant of the magazine pop that takes the oldest block (front) instead of
\* the newest (back)
acquire_from_cache_Fifo(H, t, s) ==
  Let(IF H.thread_cache[t][s] = <<>> THEN refill_cache(H, t, s, 0) ELSE H, LAMBDA H1 :
    IF H1.thread_cache[t][s] = <<>>
    THEN slab_allocate(H1, t, s) @@ [via |-> "slab"]
    ELSE LET ptr == Head(H1.thread_cache[t][s])
             block == ptr_to_block(ptr)
         IN  [H |-> StatAlloc([H1 EXCEPT !.thread_cache[t][s] = Tail(@),
                                         !.blocks[block].is_free = FALSE,
                                         !.blocks[block].next = NULL,
                                         !.blocks[block].prev = NULL,
                                         !.blocks[block].strategy = "FIXED_SIZE"],
                              t, H1.blocks[block].size),
              result |-> ptr, via |-> "cache"])

\* MemoryPool::acquire_small_from_cache / acquire_medium_from_cache /
\* acquire_large_from_cache
acquire_from_cache(H, t, s) ==
  Let(IF H.thread_cache[t][s] = <<>> THEN refill_cache(H, t, s, 0) ELSE H, LAMBDA H1 :
    IF H1.thread_cache[t][s] = <<>>
    THEN slab_allocate(H1, t, s) @@ [via |-> "slab"]
    ELSE LET ptr == Last(H1.thread_cache[t][s])
             block == ptr_to_block(ptr)
         IN  [H |-> StatAlloc([H1 EXCEPT !.thread_cache[t][s] = Front(@),
                                         !.blocks[block].is_free = FALSE,
                                         !.blocks[block].next = NULL,
                                         !.blocks[block].prev = NULL,
                                         !.blocks[block].strategy = "FIXED_SIZE"],
                              t, H1.blocks[block].size),
              result |-> ptr, via |-> "cache"])

\* Variant of the magazine push that does not look at the cap
release_to_cache_Uncapped(H, t, s, ptr) ==
  LET block == ptr_to_block(ptr)
      H1 == [H EXCEPT !.blocks[block].is_free = TRUE,
                      !.blocks[block].next = NULL,
                      !.blocks[block].prev = NULL,
                      !.thread_cache[t][s] = Append(@, ptr)]
  IN  StatDealloc(H1, t, H1.blocks[block].size)

\* MemoryPool::release_small_to_cache / release_medium_to_cache /
\* release_large_to_cache (each returns true on both paths)
release_to_cache(H, t, s, ptr) ==
  IF Len(H.thread_cache[t][s]) < CACHE_LIMIT[s]
  THEN LET block == ptr_to_block(ptr)
           H1 == [H EXCEPT !.blocks[block].is_free = TRUE,
                           !.blocks[block].next = NULL,
                           !.blocks[block].prev = NULL,
                           !.thread_cache[t][s] = Append(@, ptr)]
       IN  StatDealloc(H1, t, H1.blocks[block].size)
  ELSE slab_deallocate(H, t, s, ptr)

(***************************************************************************)
(* The allocation paths of the general pool.                               *)
(***************************************************************************)
\* Variant of the class selection that wants a class strictly larger than size
select_segregated_class_Strict(size) ==
  IF \E i \in 1..SEGREGATED_CLASS_COUNT : SEGREGATED_CLASS_SIZES[i] > size
  THEN CHOOSE i \in 1..SEGREGATED_CLASS_COUNT :
         /\ SEGREGATED_CLASS_SIZES[i] > size
         /\ \A j \in 1..(i - 1) : SEGREGATED_CLASS_SIZES[j] <= size
  ELSE SEGREGATED_CLASS_COUNT + 1

\* MemoryPool::select_segregated_class (classes are numbered from 1 here;
\* SEGREGATED_CLASS_COUNT + 1 stands for "no class")
select_segregated_class(size) ==
  IF \E i \in 1..SEGREGATED_CLASS_COUNT : SEGREGATED_CLASS_SIZES[i] >= size
  THEN CHOOSE i \in 1..SEGREGATED_CLASS_COUNT :
         /\ SEGREGATED_CLASS_SIZES[i] >= size
         /\ \A j \in 1..(i - 1) : SEGREGATED_CLASS_SIZES[j] < size
  ELSE SEGREGATED_CLASS_COUNT + 1

\* A split test that never splits
ShouldSplit_Never(block_size, size) == FALSE

\* The split test of allocate_best_fit
ShouldSplit(block_size, size) ==
  block_size >= Wrap(size + HEADER_SIZE + MIN_SPLIT_PAYLOAD)

\* The tail of allocate_best_fit, from detach_free_block on
TakeBestFit(H, t, size, block) ==
  Let(detach_free_block(H, block), LAMBDA H2 :
  Let(IF ShouldSplit(H2.blocks[block].size, size)
      THEN insert_free_block(
             [H2 EXCEPT !.blocks = [InitBlock(@, data(block) + size,
                                              H2.blocks[block].size - size, "BEST_FIT")
                                      EXCEPT ![block].size = size]],
             data(block) + size, "BEST_FIT", TRUE)
      ELSE H2, LAMBDA H3 :
    [H |-> StatAlloc([H3 EXCEPT !.blocks[block].is_free = FALSE,
                                !.blocks[block].strategy = "BEST_FIT"],
                     t, H3.blocks[block].size),
     result |-> data(block), via |-> "best_fit"]))

\* An allocate_best_fit that gives up after adding the chunk
allocate_best_fit_NoRetry(H, t, size) ==
  IF LowerBound(H.size_index, size) = 0
  THEN [H |-> add_new_chunk(H), result |-> NULL, via |-> "best_fit"]
  ELSE TakeBestFit(H, t, size, H.size_index[LowerBound(H.size_index, size)].block)

\* MemoryPool::allocate_best_fit
allocate_best_fit(H, t, size) ==
  Let(IF LowerBound(H.size_index, size) = 0 THEN add_new_chunk(H) ELSE H, LAMBDA H1 :
    LET it == LowerBound(H1.size_index, size)
    IN  IF it = 0 \/ H1.hung THEN [H |-> H1, result |-> NULL, via |-> "best_fit"]
        ELSE TakeBestFit(H1, t, size, H1.size_index[it].block))

\* MemoryPool::allocate_from_pool
allocate_from_pool(H, t, size) ==
  Let(IF LowerBound(H.size_index, size) = 0 THEN add_new_chunk(H) ELSE H, LAMBDA H1 :
    LET it == LowerBound(H1.size_index, size)
        block == H1.size_index[it].block
    IN  IF it = 0 \/ H1.hung THEN [H |-> H1, result |-> NULL, via |-> "pool"]
        ELSE Let(detach_free_block(H1, block), LAMBDA H2 :
               [H |-> StatAlloc([H2 EXCEPT !.blocks[block].is_free = FALSE,
                                           !.blocks[block].strategy = "POOL_BASED"],
                                t, H2.blocks[block].size),
                result |-> data(block), via |-> "pool"]))

\* A carving that cuts one block of the class from the chunk block and
\* leaves the rest of it alone
CarveChunk_Single(H2, class_index, chunk_block) ==
  [H2 EXCEPT !.blocks[chunk_block] =
               [next |-> H2.segregated_free_lists[class_index], prev |-> NULL,
                size |-> SEGREGATED_CLASS_SIZES[class_index], is_free |-> TRUE,
                strategy |-> "SEGREGATED"],
             !.segregated_free_lists[class_index] = chunk_block]

\* The carving loop of replenish_segregated_class and what follows it, on the
\* pool H2 left by detach_free_block(chunk_block)
CarveChunk(H2, class_index, chunk_block) ==
  LET class_size == SEGREGATED_CLASS_SIZES[class_index]
      stride == class_size + HEADER_SIZE
      total_bytes == H2.blocks[chunk_block].size + HEADER_SIZE
      n == total_bytes \div stride
      at(i) == chunk_block + i * stride
      fresh == {at(i) : i \in 0..(n - 1)}
      old == H2.segregated_free_lists[class_index]
      kept == {a \in DOMAIN H2.blocks :
                 \/ a + HEADER_SIZE <= chunk_block
                 \/ a >= chunk_block + n * stride
                 \/ \A f \in fresh : a + HEADER_SIZE <= f \/ f + HEADER_SIZE <= a}
      B1 == [a \in kept \cup fresh |->
               IF a \in fresh
               THEN [next |-> IF a = chunk_block THEN old ELSE a - stride, prev |-> NULL,
                     size |-> class_size, is_free |-> TRUE, strategy |-> "SEGREGATED"]
               ELSE H2.blocks[a]]
      rest == total_bytes - n * stride
      cursor == chunk_block + n * stride
  IN  Let(IF n > 0
          THEN [H2 EXCEPT !.blocks = B1,
                          !.segregated_free_lists[class_index] = at(n - 1)]
          ELSE H2, LAMBDA H3 :
        IF rest > HEADER_SIZE
        THEN insert_free_block([H3 EXCEPT !.blocks = InitBlock(@, cursor, rest, "BEST_FIT")],
                               cursor, "BEST_FIT", TRUE)
        ELSE H3)

\* MemoryPool::replenish_segregated_class
replenish_segregated_class(H, class_index) ==
  IF class_index > SEGREGATED_CLASS_COUNT THEN H
  ELSE
    Let(add_new_chunk(H), LAMBDA H1 :
      IF H1.hung THEN H1
      ELSE Let(detach_free_block(H1, Last(H1.memory_chunks)), LAMBDA H2 :
             IF H2.blocks[Last(H1.memory_chunks)].size > SIZE_MAX - HEADER_SIZE THEN H2
             ELSE CarveChunk(H2, class_index, Last(H1.memory_chunks))))

\* MemoryPool::allocate_segregated (MEMPOOL_SHARDED_SEGREGATED is not defined)
allocate_segregated(H, t, size) ==
  LET class_index == select_segregated_class(size)
  IN  IF class_index = SEGREGATED_CLASS_COUNT + 1 THEN allocate_best_fit(H, t, size)
      ELSE
        Let(IF H.segregated_free_lists[class_index] = NULL
            THEN replenish_segregated_class(H, class_index) ELSE H, LAMBDA H1 :
          LET block == H1.segregated_free_lists[class_index]
          IN  IF H1.hung THEN [H |-> H1, result |-> NULL, via |-> "segregated"]
              ELSE IF block = NULL THEN allocate_best_fit(H1, t, size)
              ELSE [H |-> StatAlloc([H1 EXCEPT
                                       !.segregated_free_lists[class_index] = H1.blocks[block].next,
                                       !.blocks[block].next = NULL,
                                       !.blocks[block].prev = NULL,
                                       !.blocks[block].is_free = FALSE,
                                       !.blocks[block].strategy = "SEGREGATED"],
                                    t, H1.blocks[block].size),
                    result |-> data(block), via |-> "segregated"])

(***************************************************************************)
(* The public operations, as functions of the pool state H (a record of    *)
(* the variables below) and the calling thread t.  H.locked records that   *)
(* the operation acquired the pool mutex.                                  *)
(***************************************************************************)
\* MemoryPool::usable_size, which the bench adapter calls and src/ does not
\* hold (SPEC-MODELLED from spec.md 4.11: the size field of the header of p)
MemoryPool_usable_size(blks, ptr) == blks[ptr_to_block(ptr)].size

\* usable_size of the bench adapter, for an allocation that is not aligned
usable_size(blks, ptr) ==
  IF ptr = NULL THEN 0 ELSE MemoryPool_usable_size(blks, ptr)

\* The slab chosen by size in allocate and deallocate; 0 for none
SlabFor(size) ==
  IF size <= 32 THEN 1 ELSE IF size <= 128 THEN 2 ELSE IF size <= 256 THEN 3 ELSE 0

\* Variant of the dispatcher that leaves requests above 256 bytes to best-fit
EffectiveStrategy_NoPromotion(aligned_size, strategy) ==
  IF strategy = "BEST_FIT"
  THEN IF aligned_size <= 256 THEN "FIXED_SIZE" ELSE "BEST_FIT"
  ELSE strategy

\* Variant of the dispatcher that reclassifies by size whatever the strategy
EffectiveStrategy_AnyStrategy(aligned_size, strategy) ==
  IF aligned_size <= 256 THEN "FIXED_SIZE"
  ELSE IF aligned_size <= 512 THEN "SEGREGATED"
  ELSE strategy

\* The reclassification of a BEST_FIT request in allocate
EffectiveStrategy(aligned_size, strategy) ==
  IF strategy = "BEST_FIT"
  THEN IF aligned_size <= 32 THEN "FIXED_SIZE"
       ELSE IF aligned_size <= 128 THEN "FIXED_SIZE"
       ELSE IF aligned_size <= 256 THEN "FIXED_SIZE"
       ELSE IF aligned_size <= 512 THEN "SEGREGATED"
       ELSE "BEST_FIT"
  ELSE strategy

\* scope.push_back(p); scope_lookup[p] = {scope_stack.size() - 1, position}
RecordInScope(H, p) ==
  LET top == Len(H.scope_stack)
      position == Len(H.scope_stack[top])
  IN  [H EXCEPT !.scope_stack[top] = Append(@, p),
                !.scope_lookup = Put(@, p, [scope_index |-> top - 1, position |-> position])]

\* MemoryPool::allocate
\* MemoryPool::allocate, lines 357-366: the attempt on the magazines and slabs
\* (no pool lock is held)
AcquireFixed(H, t, size, strategy) ==
  LET aligned_size == align_size(size)
  IN  IF EffectiveStrategy(aligned_size, strategy) = "FIXED_SIZE" /\ SlabFor(aligned_size) # 0
      THEN acquire_from_cache(H, t, SlabFor(aligned_size))
      ELSE [H |-> H, result |-> NULL, via |-> "none"]

\* MemoryPool::allocate, lines 368-412: what follows the attempt, whose
\* outcome is fixed
AllocateAfterFixed(H, t, size, strategy, fixed) ==
  LET aligned_size == align_size(size)
      effective_strategy == EffectiveStrategy(aligned_size, strategy)
  IN    IF fixed.result # NULL
        THEN IF H.thread_safe /\ fixed.H.active_scope_count > 0
             THEN [fixed EXCEPT !.H = IF fixed.H.scope_stack # <<>>
                                      THEN RecordInScope([@ EXCEPT !.locked = TRUE], fixed.result)
                                      ELSE [@ EXCEPT !.locked = TRUE]]
             ELSE fixed
        ELSE
          Let([fixed.H EXCEPT !.locked = H.thread_safe], LAMBDA L :
          Let(CASE effective_strategy = "BEST_FIT" -> allocate_best_fit(L, t, aligned_size)
                [] effective_strategy = "POOL_BASED" -> allocate_from_pool(L, t, aligned_size)
                [] effective_strategy = "SEGREGATED" -> allocate_segregated(L, t, aligned_size)
                [] OTHER -> allocate_best_fit(L, t, aligned_size), LAMBDA r :
            IF r.result # NULL /\ r.H.scope_stack # <<>>
            THEN [r EXCEPT !.H = RecordInScope(r.H, r.result)]
            ELSE r))

\* MemoryPool::allocate
allocate(H, t, size, strategy) ==
  Let(AcquireFixed(H, t, size, strategy), LAMBDA fixed :
    AllocateAfterFixed(H, t, size, strategy, fixed))

\* The scope bookkeeping of deallocate (lines 425-441): swap-with-back removal
UnregisterFromScope(H, ptr) ==
  IF ptr \notin DOMAIN H.scope_lookup THEN H
  ELSE
    LET scope_index == H.scope_lookup[ptr].scope_index
        position == H.scope_lookup[ptr].position
        inStack == scope_index < Len(H.scope_stack)
        scope == H.scope_stack[scope_index + 1]
        inScope == inStack /\ position < Len(scope)
        tail == Last(scope)
        H1 == IF inScope
              THEN [H EXCEPT
                      !.scope_stack[scope_index + 1] = Front([scope EXCEPT ![position + 1] = tail]),
                      !.scope_lookup =
                         IF tail = ptr THEN @
                         ELSE IF tail \in DOMAIN @ THEN [@ EXCEPT ![tail].position = position]
                         ELSE Put(@, tail, [scope_index |-> 0, position |-> position])]
              ELSE H
    IN  [H1 EXCEPT !.scope_lookup = Del(@, ptr)]

\* The SEGREGATED branch of deallocate (lines 479-500), under the lock
ReleaseSegregated(L, t, block) ==
  LET class_index == select_segregated_class(L.blocks[block].size)
      L1 == [L EXCEPT !.blocks[block].is_free = TRUE,
                      !.blocks[block].prev = NULL,
                      !.blocks[block].next = NULL]
  IN  Let(IF class_index <= SEGREGATED_CLASS_COUNT
          THEN [L1 EXCEPT
                  !.blocks[block].strategy = "SEGREGATED",
                  !.blocks[block].next = L.segregated_free_lists[class_index],
                  !.segregated_free_lists[class_index] = block]
          ELSE insert_free_block(L1, block, "BEST_FIT", TRUE), LAMBDA L2 :
        IF L2.hung THEN L2 ELSE StatDealloc(L2, t, L2.blocks[block].size))

\* MemoryPool::deallocate, lines 420-441: the scope bookkeeping, under the
\* pool lock, of a shared pool with an open scope
NeedScopeHandling(H) == H.thread_safe /\ H.active_scope_count > 0

\* A scope bookkeeping that does not take the pool lock
HandleScope_Unlocked(H, ptr) ==
  IF NeedScopeHandling(H) THEN UnregisterFromScope(H, ptr) ELSE H

HandleScope(H, ptr) ==
  IF NeedScopeHandling(H)
  THEN UnregisterFromScope([H EXCEPT !.locked = TRUE], ptr)
  ELSE H

\* MemoryPool::deallocate, lines 443-503: the release of the block; a
\* FIXED_SIZE block goes to the magazine or the slab after the pool lock is
\* dropped, every other block is released under the pool lock
ReleaseBlock(H1, t, ptr) ==
  LET block == ptr_to_block(ptr)
      block_strategy == H1.blocks[block].strategy
      bsize == H1.blocks[block].size
  IN  IF block_strategy = "FIXED_SIZE"
      THEN IF SlabFor(bsize) # 0
           THEN release_to_cache([H1 EXCEPT !.locked = FALSE], t, SlabFor(bsize), ptr)
           ELSE deallocate_block([H1 EXCEPT !.locked = TRUE], t, block)
      ELSE IF block_strategy = "SEGREGATED"
           THEN ReleaseSegregated([H1 EXCEPT !.locked = TRUE], t, block)
           ELSE deallocate_block([H1 EXCEPT !.locked = TRUE], t, block)

\* A deallocate that counts a null pointer as a deallocation
deallocate_CountsNull(H, t, ptr) ==
  IF H.hung THEN H
  ELSE IF ptr = NULL THEN StatDealloc(H, t, 0)
  ELSE Let(HandleScope(H, ptr), LAMBDA H1 : ReleaseBlock(H1, t, ptr))

\* MemoryPool::deallocate
deallocate(H, t, ptr) ==
  IF ptr = NULL \/ H.hung THEN H
  ELSE Let(HandleScope(H, ptr), LAMBDA H1 :
         LET scoped == H1.locked
         IN  Let(ReleaseBlock(H1, t, ptr), LAMBDA H2 :
               [H2 EXCEPT !.locked = @ \/ scoped]))

\* MemoryPool::begin_scope
begin_scope(H) ==
  [H EXCEPT !.locked = H.thread_safe,
            !.scope_stack = Append(@, <<>>),
            !.active_scope_count = Wrap(@ + 1)]

\* MemoryPool::end_scope, lines 320-335: what it does under the pool mutex.
\* The cohort it moved out of the scope stack is returned next to the pool.
EndScopeSection(H) ==
  LET L == [H EXCEPT !.locked = H.thread_safe]
  IN  IF L.scope_stack = <<>>
      THEN [H |-> [L EXCEPT !.active_scope_count = IF @ > 0 THEN @ - 1 ELSE @],
            scoped_allocations |-> <<>>]
      ELSE [H |-> [L EXCEPT
                     !.scope_lookup = [p \in (DOMAIN @) \ Range(Last(L.scope_stack)) |-> @[p]],
                     !.scope_stack = Front(@),
                     !.active_scope_count = Wrap(@ - 1 + WORD)],
            scoped_allocations |-> Last(L.scope_stack)]

\* The loop of end_scope over scoped_allocations (lines 337-339)
RECURSIVE DeallocateAll(_, _, _)
DeallocateAll(H, t, ptrs) ==
  IF ptrs = <<>> \/ H.hung THEN H
  ELSE DeallocateAll(deallocate(H, t, Head(ptrs)), t, Tail(ptrs))

\* MemoryPool::end_scope
end_scope(H, t) ==
  LET L == [H EXCEPT !.locked = H.thread_safe]
  IN  IF L.scope_stack = <<>>
      THEN [L EXCEPT !.active_scope_count = IF @ > 0 THEN @ - 1 ELSE @]
      ELSE
        LET scoped_allocations == Last(L.scope_stack)
            members == {scoped_allocations[i] : i \in 1..Len(scoped_allocations)}
            L1 == [L EXCEPT
                     !.scope_lookup = [p \in (DOMAIN @) \ members |-> @[p]],
                     !.scope_stack = Front(@),
                     !.active_scope_count = Wrap(@ - 1 + WORD)]
        IN  DeallocateAll(L1, t, scoped_allocations)

\* MemoryPool::allocate_aligned (spec 4.8): size + alignment + sizeof(void*)
\* bytes are allocated, the first multiple of alignment that leaves room for
\* one word is the aligned pointer, and the word before it holds the
\* original payload.  W is the memory of those words.
AlignUp(addr, alignment) == ((addr + alignment - 1) \div alignment) * alignment
allocate_aligned(H, W, t, size, alignment, strategy) ==
  Let(allocate(H, t, Wrap(size + alignment + POINTER_SIZE), strategy), LAMBDA r :
    IF r.result = NULL \/ r.H.hung
    THEN [H |-> r.H, result |-> NULL, raw |-> NULL, words |-> W]
    ELSE LET aligned == AlignUp(r.result + POINTER_SIZE, alignment)
         IN  [H |-> r.H, result |-> aligned, raw |-> r.result,
              words |-> Put(W, aligned - POINTER_SIZE, r.result)])

\* MemoryPool::deallocate_aligned (spec 4.8): the word before p is read and
\* passed to deallocate
deallocate_aligned(H, W, t, p) ==
  IF p = NULL THEN [H |-> H, raw |-> NULL]
  ELSE [H |-> deallocate(H, t, W[p - POINTER_SIZE]), raw |-> W[p - POINTER_SIZE]]

\* MemoryPool::release_thread_cache, one of its three loops: every pointer of
\* the magazine of slab s, front to back, goes to deallocate_raw
RECURSIVE DrainMagazine(_, _, _, _)
DrainMagazine(H, t, s, i) ==
  IF i > Len(H.thread_cache[t][s]) THEN [H EXCEPT !.thread_cache[t][s] = <<>>]
  ELSE DrainMagazine(slab_deallocate_raw(H, s, H.thread_cache[t][s][i]), t, s, i + 1)

\* A release_thread_cache that forgets the large magazine
release_thread_cache_SmallMedium(H, t) ==
  DrainMagazine(DrainMagazine(H, t, 1, 1), t, 2, 1)

\* MemoryPool::release_thread_cache by thread t
release_thread_cache(H, t) ==
  DrainMagazine(DrainMagazine(DrainMagazine(H, t, 1, 1), t, 2, 1), t, 3, 1)

\* MemoryPool::reset, lines 514-517: every chunk is initialised as one block
\* and inserted into the free list
RECURSIVE ReinsertChunks(_, _)
ReinsertChunks(H, i) ==
  IF i > Len(H.memory_chunks) \/ H.hung THEN H
  ELSE Let(InitBlock(H.blocks, H.memory_chunks[i], POOL_SIZE, "BEST_FIT"), LAMBDA B :
         ReinsertChunks(insert_free_block([H EXCEPT !.blocks = B], H.memory_chunks[i],
                                          "BEST_FIT", TRUE), i + 1))

\* MemoryPool::reset by thread t
reset(H, t) ==
  Let(ReinsertChunks([H EXCEPT !.locked = H.thread_safe, !.free_list = NULL,
                               !.size_index = <<>>, !.size_lookup = <<>>], 1), LAMBDA H1 :
    IF H1.hung THEN H1
    ELSE [H1 EXCEPT !.scope_stack = <<>>,
                    !.scope_lookup = <<>>,
                    !.segregated_free_lists = [i \in 1..SEGREGATED_CLASS_COUNT |-> NULL],
                    !.active_scope_count = 0,
                    !.thread_cache[t] = [s \in 1..3 |-> <<>>]])


(***************************************************************************)
(* The state: the fields of one MemoryPool, its three slab allocators, the *)
(* thread-local magazines and statistics, and what the callers hold.       *)
(***************************************************************************)
VARIABLES
  thread_safe,            \* MemoryPool::thread_safe
  blocks,                 \* the headers in memory: address -> MemoryBlock
  memory_chunks,          \* MemoryPool::memory_chunks
  free_list,              \* MemoryPool::free_list
  size_index,             \* MemoryPool::size_index
  size_lookup,            \* MemoryPool::size_lookup
  segregated_free_lists,  \* MemoryPool::segregated_free_lists
  slab_chunks,            \* FixedSizeAllocator::memory_chunks of the three slabs
  slab_free_list,         \* FixedSizeAllocator::free_list of the three slabs
  thread_cache,           \* MemoryPool::thread_cache of each thread
  stats,                  \* AllocationStats' thread-local counters of each thread
  scope_stack,            \* MemoryPool::scope_stack
  scope_lookup,           \* MemoryPool::scope_lookup
  active_scope_count,     \* MemoryPool::active_scope_count
  hung,                   \* an operation is in a loop that never ends
  contiguous,             \* operator new[] places the pool's chunks back to back
  arena,                  \* the half of the address space the pool's chunks lie in
  live,                   \* payloads returned and not yet deallocated by the caller or end_scope
  ret,                    \* the last operation: its arguments and what it returned
  nalloc,                 \* number of allocate calls so far
  totals,                 \* AllocationStats' global atomics
  pending,                \* of each thread: the call it is in the middle of
  workload,               \* of the threads' workloads: who allocated each live payload,
                          \* whether a thread freed another's, whether a request failed
  words,                  \* the pointers allocate_aligned has stored in payloads:
                          \* address of the word -> the pointer it holds
  other,                  \* the members of the process's second MemoryPool object; the
                          \* variables above hold the pool that was called last
  custody                 \* of the caller of two pools: the pool each payload it holds
                          \* came from, and the pool each payload was last freed to

poolVars == <<thread_safe, blocks, memory_chunks, free_list, size_index, size_lookup,
              segregated_free_lists, slab_chunks, slab_free_list, thread_cache, stats,
              scope_stack, scope_lookup, active_scope_count, hung, contiguous, arena>>
threadVars == <<totals, pending, workload, words>>
pairVars == <<other, custody>>
vars == <<poolVars, live, ret, nalloc, threadVars, pairVars>>

\* The pool state as one record
Cur ==
  [thread_safe |-> thread_safe, blocks |-> blocks, memory_chunks |-> memory_chunks,
   free_list |-> free_list, size_index |-> size_index, size_lookup |-> size_lookup,
   segregated_free_lists |-> segregated_free_lists, slab_chunks |-> slab_chunks,
   slab_free_list |-> slab_free_list, thread_cache |-> thread_cache, stats |-> stats,
   scope_stack |-> scope_stack, scope_lookup |-> scope_lookup,
   active_scope_count |-> active_scope_count, hung |-> hung, contiguous |-> contiguous,
   arena |-> arena, locked |-> FALSE]

Commit(H) ==
  /\ thread_safe' = H.thread_safe
  /\ blocks' = H.blocks
  /\ memory_chunks' = H.memory_chunks
  /\ free_list' = H.free_list
  /\ size_index' = H.size_index
  /\ size_lookup' = H.size_lookup
  /\ segregated_free_lists' = H.segregated_free_lists
  /\ slab_chunks' = H.slab_chunks
  /\ slab_free_list' = H.slab_free_list
  /\ thread_cache' = H.thread_cache
  /\ stats' = H.stats
  /\ scope_stack' = H.scope_stack
  /\ scope_lookup' = H.scope_lookup
  /\ active_scope_count' = H.active_scope_count
  /\ hung' = H.hung
  /\ contiguous' = H.contiguous
  /\ arena' = H.arena

\* What a best-fit or pool allocation chose from: the size of the block it
\* took (as it was on the free list), whether that block was one of the free
\* BEST_FIT blocks of at least the size wanted, the sizes of all of these, the
\* block of the first entry of the size index that is large enough, and the
\* free BEST_FIT blocks of the free list
NoChoice ==
  [chosen_size |-> 0, chosen_fits |-> FALSE, fit_sizes |-> {}, first |-> NULL, free |-> {}]

\* What a deallocate of a BEST_FIT block found around it: from is the header
\* of the free block that ends where the freed block begins (the freed block
\* itself when there is none), to is the end of the free block that begins
\* where the freed block ends; earlier and later tell which of the two exist
NoSpan == [from |-> NULL, to |-> NULL, earlier |-> FALSE, later |-> FALSE]

\* What a segregated refill took: the class it refilled, the header of the
\* chunk block it detached, that block's size and the head of the class list
\* it spliced in front of
NoRefill == [class |-> 0, chunk |-> NULL, taken |-> 0, old |-> NULL]

\* The last operation's record; every operation fills the fields it has
NoRet ==
  [op |-> "none", t |-> 0, size |-> 0, strategy |-> "BEST_FIT", aligned_size |-> 0,
   result |-> NULL, via |-> "none", tag |-> "none", usable |-> 0, block_size |-> 0, was_live |-> FALSE,
   depth_before |-> 0, ptr |-> NULL, slab |-> 0, magazine_before |-> 0,
   follows_free |-> FALSE, freed_ptr |-> NULL, freed_magazine |-> 0,
   tracked_before |-> FALSE, stack_before |-> <<>>, live_before |-> {}, locked |-> FALSE,
   chunks_before |-> 0, cache_before |-> <<>>, slabs_before |-> <<>>,
   no_fit_before |-> FALSE, alignment |-> 0, choice |-> NoChoice, span |-> NoSpan,
   tag_before |-> "none", freed_tag |-> "none", refill |-> NoRefill,
   already_free |-> FALSE, nested |-> FALSE, cached |-> {}, pool_unchanged |-> FALSE]

\* MemoryPool::MemoryPool(thread_safe): the three slab allocators are
\* constructed first, each with one chunk, then the pool's first chunk.
Unbuilt(ts) ==
  [thread_safe |-> ts, blocks |-> <<>>, memory_chunks |-> <<>>,
   free_list |-> NULL, size_index |-> <<>>, size_lookup |-> <<>>,
   segregated_free_lists |-> [i \in 1..SEGREGATED_CLASS_COUNT |-> NULL],
   slab_chunks |-> [s \in 1..3 |-> <<>>],
   slab_free_list |-> [s \in 1..3 |-> NULL],
   thread_cache |-> [t \in AllThreads |-> [s \in 1..3 |-> <<>>]],
   stats |-> [t \in AllThreads |->
                [allocations |-> 0, deallocations |-> 0, bytes_allocated |-> 0,
                 last_reported_bytes |-> 0]],
   scope_stack |-> <<>>, scope_lookup |-> <<>>, active_scope_count |-> 0,
   hung |-> FALSE, contiguous |-> FALSE, arena |-> 0, locked |-> FALSE]
Build(E) ==
  add_new_chunk(slab_add_new_chunk(slab_add_new_chunk(slab_add_new_chunk(E, 1), 2), 3))
Constructed(ts) == Build(Unbuilt(ts))

\* A second MemoryPool constructed in the process of pool P: its chunks are
\* other memory; the magazines and the counters, static thread_local members,
\* are the ones P uses
ConstructedBeside(P, ts) ==
  Build([Unbuilt(ts) EXCEPT !.arena = 1, !.blocks = P.blocks,
                            !.thread_cache = P.thread_cache, !.stats = P.stats])

Install(H) ==
  /\ thread_safe = H.thread_safe
  /\ blocks = H.blocks
  /\ memory_chunks = H.memory_chunks
  /\ free_list = H.free_list
  /\ size_index = H.size_index
  /\ size_lookup = H.size_lookup
  /\ segregated_free_lists = H.segregated_free_lists
  /\ slab_chunks = H.slab_chunks
  /\ slab_free_list = H.slab_free_list
  /\ thread_cache = H.thread_cache
  /\ stats = H.stats
  /\ scope_stack = H.scope_stack
  /\ scope_lookup = H.scope_lookup
  /\ active_scope_count = H.active_scope_count
  /\ hung = H.hung
  /\ contiguous = H.contiguous
  /\ arena = H.arena

\* AllocationStats::total_allocations, total_deallocations, total_bytes
\* (memory_pool.cpp 8-10)
NoTotals == [total_allocations |-> 0, total_deallocations |-> 0, total_bytes |-> 0]

\* A thread that is in no call
Idle ==
  [op |-> "none", ptr |-> NULL, size |-> 0, strategy |-> "BEST_FIT", via |-> "none",
   cohort |-> <<>>]

\* No payload is held, no thread has freed another's, no request has failed
NoWorkload == [owner |-> <<>>, crossed |-> FALSE, failed |-> FALSE]

\* The process has one MemoryPool object only
NoPool == <<>>

\* No payload is held and none was freed
NoCustody == [from |-> <<>>, freed |-> <<>>]

Init ==
  /\ \E ts \in BOOLEAN : Install(Constructed(ts))
  /\ live = {}
  /\ ret = NoRet
  /\ nalloc = 0
  /\ totals = NoTotals
  /\ pending = [t \in AllThreads |-> Idle]
  /\ workload = NoWorkload
  /\ words = <<>>
  /\ other = NoPool
  /\ custody = NoCustody

(***************************************************************************)
(* The calls.  In an exclusive pool (thread_safe = false) only the owning  *)
(* thread calls.  A call that runs into a loop that never ends leaves the  *)
(* pool hung: nothing returns and nothing more happens.                    *)
(***************************************************************************)
MayCall(t) == ~hung /\ (thread_safe \/ t = 1) /\ pending[t] = Idle
Members(seq) == {seq[i] : i \in 1..Len(seq)}
Tracked(stack, p) == \E i \in 1..Len(stack) : p \in Members(stack[i])
Hung == [NoRet EXCEPT !.op = "hung"]

\* The blocks of a list linked through next, head first; a list that runs
\* into itself is cut where it does
RECURSIVE ListFrom(_, _, _)
ListFrom(blks, head, seen) ==
  IF head = NULL \/ head \in seen \/ head \notin DOMAIN blks THEN <<>>
  ELSE <<head>> \o ListFrom(blks, blks[head].next, seen \cup {head})

\* The pool allocate_best_fit(size) chooses from: the pool as it is, or with
\* the chunk it adds when the size index has no block large enough
BestFitView(size) ==
  IF LowerBound(size_index, size) = 0 THEN add_new_chunk(Cur) ELSE Cur

\* The free BEST_FIT blocks of pool V, on its free list, of at least size bytes
Fitting(V, size) ==
  {a \in Members(ListFrom(V.blocks, V.free_list, {})) :
     V.blocks[a].is_free /\ V.blocks[a].strategy = "BEST_FIT" /\ V.blocks[a].size >= size}

\* The choice of an allocate_best_fit(size) on pool V that returned p
BestFitChoice(V, size, p) ==
  IF p = NULL \/ V.hung THEN NoChoice
  ELSE [chosen_size |-> V.blocks[ptr_to_block(p)].size,
        chosen_fits |-> ptr_to_block(p) \in Fitting(V, size),
        fit_sizes |-> {V.blocks[a].size : a \in Fitting(V, size)},
        first |-> IF LowerBound(V.size_index, size) = 0 THEN NULL
                  ELSE V.size_index[LowerBound(V.size_index, size)].block,
        free |-> Fitting(V, 0)]

\* The refill that allocate_segregated(size) makes on pool V, whose list of
\* the class of size is empty, seen on the pool W that add_new_chunk leaves
RefillTaken(V, W, size) ==
  [class |-> select_segregated_class(size),
   chunk |-> Last(W.memory_chunks),
   taken |-> W.blocks[Last(W.memory_chunks)].size,
   old |-> V.segregated_free_lists[select_segregated_class(size)]]

\* The refill, if any, of an allocate of aligned_size bytes served as via
RefillOf(aligned_size, via) ==
  IF /\ via = "segregated"
     /\ select_segregated_class(aligned_size) <= SEGREGATED_CLASS_COUNT
     /\ segregated_free_lists[select_segregated_class(aligned_size)] = NULL
  THEN RefillTaken(Cur, add_new_chunk(Cur), aligned_size)
  ELSE NoRefill

\* Whether the chunk vector, the best-fit free list, the size index, the
\* segregated lists and the statistics counters of V and W are the same
SamePool(V, W) ==
  /\ V.memory_chunks = W.memory_chunks
  /\ ListFrom(V.blocks, V.free_list, {}) = ListFrom(W.blocks, W.free_list, {})
  /\ V.size_index = W.size_index
  /\ V.segregated_free_lists = W.segregated_free_lists
  /\ V.stats = W.stats

\* What the caller sees of r = allocate(...): the new pool state, the payload
\* and the header behind it
AllocateReturn(t, size, strategy, r) ==
  LET p == r.result
      aligned_size == align_size(size)
      slab == IF EffectiveStrategy(aligned_size, strategy) = "FIXED_SIZE"
              THEN SlabFor(aligned_size) ELSE 0
      after == ret.op = "deallocate" /\ ret.t = t /\ ret.slab # 0 /\ ret.slab = slab
  IN  /\ Commit(r.H)
      /\ IF r.H.hung
         THEN ret' = Hung /\ live' = live
         ELSE /\ live' = IF p = NULL THEN live ELSE live \cup {p}
              /\ ret' = [NoRet EXCEPT
                   !.op = "allocate", !.t = t, !.size = size, !.strategy = strategy,
                   !.aligned_size = aligned_size, !.result = p, !.via = r.via,
                   !.tag = IF p = NULL THEN "none" ELSE r.H.blocks[ptr_to_block(p)].strategy,
                   !.block_size = IF p = NULL THEN 0 ELSE r.H.blocks[ptr_to_block(p)].size,
                   !.usable = usable_size(r.H.blocks, p),
                   !.was_live = p \in live,
                   !.depth_before = Len(scope_stack),
                   !.slab = slab,
                   !.follows_free = after,
                   !.freed_ptr = IF after THEN ret.ptr ELSE NULL,
                   !.freed_magazine = IF after THEN ret.magazine_before ELSE 0,
                   !.freed_tag = IF p # NULL /\ ret.op = "deallocate" /\ ret.ptr = p
                                 THEN ret.tag_before ELSE "none",
                   !.chunks_before = Len(memory_chunks),
                   !.no_fit_before = (LowerBound(size_index, aligned_size) = 0),
                   !.refill = RefillOf(aligned_size, r.via),
                   !.choice = IF r.via \in {"best_fit", "pool"}
                              THEN BestFitChoice(BestFitView(aligned_size), aligned_size, p)
                              ELSE NoChoice,
                   !.pool_unchanged = SamePool(Cur, r.H),
                   !.locked = r.H.locked]

\* p = pool.allocate(size, strategy) by thread t
Allocate(t, size, strategy) ==
  /\ MayCall(t)
  /\ AllocateReturn(t, size, strategy, allocate(Cur, t, size, strategy))
  /\ nalloc' = nalloc + 1
  /\ UNCHANGED <<threadVars, pairVars>>

\* The free BEST_FIT blocks next to block, allocated with the tag BEST_FIT,
\* as deallocate finds them on the free list
SpanAround(block) ==
  LET free == Fitting(Cur, 0)
      after == block + HEADER_SIZE + blocks[block].size
      before == {a \in free : a + HEADER_SIZE + blocks[a].size = block}
  IN  IF blocks[block].strategy # "BEST_FIT" \/ blocks[block].is_free THEN NoSpan
      ELSE [from |-> IF before = {} THEN block ELSE CHOOSE a \in before : TRUE,
            to |-> IF after \in free THEN after + HEADER_SIZE + blocks[after].size ELSE after,
            earlier |-> before # {},
            later |-> after \in free]

\* What the caller sees of deallocate(p), which left the pool as H
\* Whether deallocate(p) still holds the pool mutex when it hands a
\* fixed-size block to the magazine, from where a full magazine passes it on
\* to FixedSizeAllocator::deallocate, which takes the slab mutex
SlabUnderPoolMutex(t, p) ==
  LET block == ptr_to_block(p)
      slab == IF blocks[block].strategy = "FIXED_SIZE" THEN SlabFor(blocks[block].size) ELSE 0
  IN  /\ slab # 0
      /\ ReleaseBlock(Cur, t, p).locked

DeallocateReturn(t, p, H) ==
  LET block == ptr_to_block(p)
      slab == IF blocks[block].strategy = "FIXED_SIZE" THEN SlabFor(blocks[block].size) ELSE 0
  IN  /\ Commit(H)
      /\ IF H.hung
         THEN ret' = Hung /\ live' = live
         ELSE /\ live' = live \ {p}
              /\ ret' = [NoRet EXCEPT
                   !.op = "deallocate", !.t = t, !.ptr = p, !.slab = slab,
                   !.magazine_before = IF slab = 0 THEN 0 ELSE Len(thread_cache[t][slab]),
                   !.tracked_before = Tracked(scope_stack, p),
                   !.depth_before = Len(scope_stack),
                   !.span = SpanAround(block),
                   !.tag_before = blocks[block].strategy,
                   !.nested = SlabUnderPoolMutex(t, p),
                   !.locked = H.locked]

\* pool.deallocate(p) by thread t, for a payload p the caller holds
Deallocate(t, p) ==
  /\ MayCall(t)
  /\ p \in live
  /\ DeallocateReturn(t, p, deallocate(Cur, t, p))
  /\ UNCHANGED <<nalloc, threadVars, pairVars>>

\* pool.begin_scope() by thread t
BeginScope(t) ==
  /\ MayCall(t)
  /\ Commit(begin_scope(Cur))
  /\ ret' = [NoRet EXCEPT !.op = "begin_scope", !.t = t,
                          !.depth_before = Len(scope_stack), !.locked = thread_safe]
  /\ UNCHANGED <<live, nalloc, threadVars, pairVars>>

\* What the caller sees of end_scope(), which left the pool as H
EndScopeReturn(t, H) ==
  LET popped == IF scope_stack = <<>> THEN {} ELSE Members(Last(scope_stack))
  IN  /\ Commit(H)
      /\ IF H.hung
         THEN ret' = Hung /\ live' = live
         ELSE /\ live' = live \ popped
              /\ ret' = [NoRet EXCEPT
                   !.op = "end_scope", !.t = t, !.depth_before = Len(scope_stack),
                   !.stack_before = scope_stack, !.live_before = live,
                   !.locked = H.locked]

\* pool.end_scope() by thread t
EndScope(t) ==
  /\ MayCall(t)
  /\ EndScopeReturn(t, end_scope(Cur, t))
  /\ UNCHANGED <<nalloc, threadVars, pairVars>>

(***************************************************************************)
(* Several threads on one shared pool.  A call is one step for each        *)
(* stretch it runs under one mutex: what a thread does under the pool      *)
(* mutex is one step, and so is what it does to its own magazines and,     *)
(* under the slab's mutex, to a slab.  allocate on the fixed-size path     *)
(* takes its block first and takes the pool mutex afterwards to record the *)
(* block in the open scope; deallocate of a FIXED_SIZE block with a scope  *)
(* open unregisters the block under the pool mutex, drops the mutex and    *)
(* releases the block afterwards.  Every other call holds the pool mutex   *)
(* from its first write to its last.                                       *)
(***************************************************************************)
\* AllocationStats::merge_thread_stats: S are the calling thread's counters,
\* T the global atomics
merge_thread_stats(S, T) ==
  LET current == S.bytes_allocated
      previous == S.last_reported_bytes
  IN  [stats |-> [S EXCEPT !.last_reported_bytes = current,
                           !.allocations = 0, !.deallocations = 0],
       totals |-> [total_allocations |-> Wrap(T.total_allocations + S.allocations),
                   total_deallocations |-> Wrap(T.total_deallocations + S.deallocations),
                   total_bytes |-> IF current >= previous
                                   THEN Wrap(T.total_bytes + (current - previous))
                                   ELSE Wrap(T.total_bytes + WORD - (previous - current))]]

\* AllocationStats::merge_thread_stats() by thread t
MergeThreadStats(t) ==
  /\ MayCall(t)
  /\ LET m == merge_thread_stats(stats[t], totals)
     IN  /\ stats' = [stats EXCEPT ![t] = m.stats]
         /\ totals' = m.totals
  /\ ret' = [NoRet EXCEPT !.op = "merge_thread_stats", !.t = t]
  /\ UNCHANGED <<thread_safe, blocks, memory_chunks, free_list, size_index, size_lookup,
                 segregated_free_lists, slab_chunks, slab_free_list, thread_cache,
                 scope_stack, scope_lookup, active_scope_count, hung, contiguous,
                 arena, live, nalloc, pending, workload, words, pairVars>>

\* Whether allocate(size, strategy) takes the fixed-size path
TakesFixedPath(size, strategy) ==
  /\ EffectiveStrategy(align_size(size), strategy) = "FIXED_SIZE"
  /\ SlabFor(align_size(size)) # 0

\* The workload of thread t keeps the payload p it was returned
Keeps(t, p) ==
  workload' = IF p = NULL THEN [workload EXCEPT !.failed = TRUE]
              ELSE [workload EXCEPT !.owner = Put(@, p, t)]

\* The workload of thread t gives away the payload p, its own or another's
GivesAway(t, p) ==
  workload' = [workload EXCEPT !.owner = Del(@, p),
                               !.crossed = @ \/ workload.owner[p] # t]

\* allocate(size, strategy) by thread t, first step on the fixed-size path:
\* the block is taken from the magazine or the slab
AllocateAcquires(t, size, strategy) ==
  /\ MayCall(t)
  /\ TakesFixedPath(size, strategy)
  /\ Let(AcquireFixed(Cur, t, size, strategy), LAMBDA fixed :
       /\ Commit(fixed.H)
       /\ pending' = [pending EXCEPT ![t] =
             [op |-> "allocate", ptr |-> fixed.result, size |-> size,
              strategy |-> strategy, via |-> fixed.via, cohort |-> <<>>]])
  /\ ret' = [NoRet EXCEPT !.op = "allocate_acquires", !.t = t]
  /\ nalloc' = nalloc + 1
  /\ UNCHANGED <<live, totals, workload, words, pairVars>>

\* allocate by thread t, last step on the fixed-size path: the block is
\* recorded in the open scope under the pool mutex, and returned
AllocateRecords(t) ==
  /\ ~hung
  /\ pending[t].op = "allocate"
  /\ Let(AllocateAfterFixed(Cur, t, pending[t].size, pending[t].strategy,
                            [H |-> Cur, result |-> pending[t].ptr, via |-> pending[t].via]),
         LAMBDA r :
       /\ AllocateReturn(t, pending[t].size, pending[t].strategy, r)
       /\ Keeps(t, r.result))
  /\ pending' = [pending EXCEPT ![t] = Idle]
  /\ UNCHANGED <<nalloc, totals, words, pairVars>>

\* allocate(size, strategy) by thread t on every other path: one step under
\* the pool mutex
AllocateLocked(t, size, strategy) ==
  /\ MayCall(t)
  /\ ~TakesFixedPath(size, strategy)
  /\ Let(allocate(Cur, t, size, strategy), LAMBDA r :
       /\ AllocateReturn(t, size, strategy, r)
       /\ Keeps(t, r.result))
  /\ nalloc' = nalloc + 1
  /\ UNCHANGED <<totals, pending, words, pairVars>>

\* Whether deallocate(p) drops the pool mutex between its scope bookkeeping
\* and the release of the block
DropsLock(p) ==
  /\ NeedScopeHandling(Cur)
  /\ blocks[ptr_to_block(p)].strategy = "FIXED_SIZE"
  /\ SlabFor(blocks[ptr_to_block(p)].size) # 0

\* deallocate(p) by thread t, first step when the mutex is dropped: p is
\* unregistered from its cohort under the pool mutex
DeallocateUnregisters(t, p) ==
  /\ MayCall(t)
  /\ p \in live
  /\ DropsLock(p)
  /\ Let(HandleScope(Cur, p), LAMBDA H :
       /\ Commit(H)
       /\ ret' = [NoRet EXCEPT !.op = "deallocate_unregisters", !.t = t, !.ptr = p,
                               !.locked = H.locked])
  /\ pending' = [pending EXCEPT ![t] = [Idle EXCEPT !.op = "deallocate", !.ptr = p]]
  /\ live' = live \ {p}
  /\ GivesAway(t, p)
  /\ UNCHANGED <<nalloc, totals, words, pairVars>>

\* deallocate by thread t, last step when the mutex was dropped: the block
\* goes to the thread's magazine or to its slab
DeallocateReleases(t) ==
  /\ ~hung
  /\ pending[t].op = "deallocate"
  /\ DeallocateReturn(t, pending[t].ptr, ReleaseBlock(Cur, t, pending[t].ptr))
  /\ pending' = [pending EXCEPT ![t] = Idle]
  /\ UNCHANGED <<nalloc, totals, workload, words, pairVars>>

\* deallocate(p) by thread t in every other case: one step
DeallocateLocked(t, p) ==
  /\ MayCall(t)
  /\ p \in live
  /\ ~DropsLock(p)
  /\ DeallocateReturn(t, p, deallocate(Cur, t, p))
  /\ GivesAway(t, p)
  /\ UNCHANGED <<nalloc, totals, pending, words, pairVars>>

\* end_scope by thread t, first step: under the pool mutex the top cohort is
\* moved out of the scope stack and its lookup entries are erased; the call
\* returns here when the cohort is empty
EndScopeTakes(t) ==
  /\ MayCall(t)
  /\ Let(EndScopeSection(Cur), LAMBDA r :
       /\ Commit(r.H)
       /\ ret' = [NoRet EXCEPT
                    !.op = IF r.scoped_allocations = <<>> THEN "end_scope" ELSE "end_scope_takes",
                    !.t = t, !.depth_before = Len(scope_stack),
                    !.stack_before = scope_stack, !.live_before = live,
                    !.locked = r.H.locked]
       /\ pending' = [pending EXCEPT ![t] =
             IF r.scoped_allocations = <<>> THEN Idle
             ELSE [Idle EXCEPT !.op = "end_scope", !.cohort = r.scoped_allocations]])
  /\ UNCHANGED <<live, nalloc, totals, workload, words, pairVars>>

\* What a round of the loop of end_scope leaves behind
EndScopeFreesReturn(t, p, H) ==
  /\ Commit(H)
  /\ IF H.hung
     THEN ret' = Hung /\ live' = live /\ UNCHANGED <<pending, workload>>
     ELSE /\ live' = live \ {p}
          /\ ret' = [NoRet EXCEPT
               !.op = "end_scope_frees", !.t = t, !.ptr = p,
               !.was_live = p \in live,
               !.already_free = blocks[ptr_to_block(p)].is_free,
               !.tag_before = blocks[ptr_to_block(p)].strategy,
               !.nested = SlabUnderPoolMutex(t, p),
               !.locked = H.locked]
          /\ pending' = [pending EXCEPT ![t] =
                IF Tail(pending[t].cohort) = <<>> THEN Idle
                ELSE [@ EXCEPT !.cohort = Tail(@)]]
          /\ workload' = [workload EXCEPT !.owner = Del(@, p)]

\* end_scope by thread t, a round of its loop: deallocate(ptr) for the next
\* payload of the cohort it took; the call returns after the last one
EndScopeFrees(t) ==
  /\ ~hung
  /\ pending[t].op = "end_scope"
  /\ EndScopeFreesReturn(t, Head(pending[t].cohort), deallocate(Cur, t, Head(pending[t].cohort)))
  /\ UNCHANGED <<nalloc, totals, words, pairVars>>

SlabLists == [s \in 1..3 |-> ListFrom(blocks, slab_free_list[s], {})]

\* pool.reset() by thread t.  The payloads of the general pool the callers
\* held are gone with it; the payloads of the slabs, which reset leaves
\* alone, stay with their holders.
Reset(t) ==
  /\ MayCall(t)
  /\ Let(reset(Cur, t), LAMBDA H :
       /\ Commit(H)
       /\ ret' = IF H.hung THEN Hung
                 ELSE [NoRet EXCEPT !.op = "reset", !.t = t, !.locked = H.locked,
                                    !.chunks_before = Len(memory_chunks),
                                    !.cached = UNION {Range(thread_cache[t][s]) : s \in 1..3}])
  /\ live' = {p \in live : blocks[ptr_to_block(p)].strategy = "FIXED_SIZE"}
  /\ UNCHANGED <<nalloc, threadVars, pairVars>>

\* pool.deallocate(nullptr) by thread t
DeallocateNull(t) ==
  /\ MayCall(t)
  /\ Let(deallocate(Cur, t, NULL), LAMBDA H :
       /\ Commit(H)
       /\ ret' = [NoRet EXCEPT !.op = "deallocate_null", !.t = t, !.locked = H.locked])
  /\ UNCHANGED <<live, nalloc, threadVars, pairVars>>

\* pool.release_thread_cache() by thread t
ReleaseThreadCache(t) ==
  /\ MayCall(t)
  /\ Commit(release_thread_cache(Cur, t))
  /\ ret' = [NoRet EXCEPT !.op = "release_thread_cache", !.t = t,
                          !.cache_before = thread_cache[t], !.slabs_before = SlabLists]
  /\ UNCHANGED <<live, nalloc, threadVars, pairVars>>

\* The aligned pointers the callers hold, and the payloads under them
AlignedHeld == {a + POINTER_SIZE : a \in DOMAIN words}
Underlying == {words[a] : a \in DOMAIN words}

\* p = alloc_aligned(size, alignment) of the bench adapter, by thread t
AllocateAligned(t, size, alignment) ==
  /\ MayCall(t)
  /\ Let(allocate_aligned(Cur, words, t, size, alignment, "BEST_FIT"), LAMBDA r :
       /\ Commit(r.H)
       /\ words' = r.words
       /\ live' = IF r.raw = NULL THEN live ELSE live \cup {r.raw}
       /\ ret' = IF r.H.hung THEN Hung
                 ELSE [NoRet EXCEPT
                         !.op = "allocate_aligned", !.t = t, !.size = size,
                         !.alignment = alignment, !.result = r.result, !.ptr = r.raw,
                         !.was_live = r.raw \in live,
                         !.usable = usable_size(r.H.blocks, r.raw),
                         !.live_before = live])
  /\ nalloc' = nalloc + 1
  /\ UNCHANGED <<totals, pending, workload, pairVars>>

\* dealloc(p, aligned = true) of the bench adapter, by thread t, for an
\* aligned pointer p the caller holds
DeallocateAligned(t, p) ==
  /\ MayCall(t)
  /\ p \in AlignedHeld
  /\ Let(deallocate_aligned(Cur, words, t, p), LAMBDA r :
       /\ Commit(r.H)
       /\ live' = live \ {r.raw}
       /\ ret' = IF r.H.hung THEN Hung
                 ELSE [NoRet EXCEPT !.op = "deallocate_aligned", !.t = t, !.ptr = p,
                                    !.result = r.raw, !.live_before = live,
                                    !.block_size = blocks[ptr_to_block(r.raw)].size])
  /\ words' = Del(words, p - POINTER_SIZE)
  /\ UNCHANGED <<nalloc, totals, pending, workload, pairVars>>

(***************************************************************************)
(* Two MemoryPool objects P (arena 0) and Q (arena 1) used by one thread.  *)
(* The memory, the magazines (static thread_local thread_cache) and the    *)
(* thread-local counters are those of the process; every other member is   *)
(* the object's own.  The variables hold the members of the pool that was  *)
(* called last, other holds those of the pool that was not.                *)
(***************************************************************************)
PoolMemberNames ==
  {"thread_safe", "memory_chunks", "free_list", "size_index", "size_lookup",
   "segregated_free_lists", "slab_chunks", "slab_free_list", "scope_stack",
   "scope_lookup", "active_scope_count", "contiguous", "arena"}
PoolMembers(H) == [f \in PoolMemberNames |-> H[f]]

\* Pool k as the record the operations work on, and the members of the pool
\* that is not k
View(k) == IF arena = k THEN Cur ELSE other @@ Cur
Rest(k) == IF arena = k THEN other ELSE PoolMembers(Cur)

\* FixedSizeAllocator::owns, which owns_ptr calls and the sources at hand do
\* not hold: ptr lies in one of the allocator's chunks
slab_owns(chunks, ptr) ==
  \E j \in 1..Len(chunks) : ptr >= chunks[j] /\ ptr < chunks[j] + CHUNK_SIZE

\* MemoryPool::owns_ptr
owns_ptr(H, ptr) ==
  IF ptr = NULL THEN FALSE
  ELSE \/ \E j \in 1..Len(H.memory_chunks) :
            ptr >= H.memory_chunks[j] /\ ptr < H.memory_chunks[j] + POOL_SIZE
       \/ slab_owns(H.slab_chunks[1], ptr)
       \/ slab_owns(H.slab_chunks[2], ptr)
       \/ slab_owns(H.slab_chunks[3], ptr)

\* p = pool.allocate(size, strategy) on pool k by thread t
AllocateOn(k, t, size, strategy) ==
  /\ ~hung /\ pending[t] = Idle
  /\ Let(allocate(View(k), t, size, strategy), LAMBDA r :
       /\ Commit(r.H)
       /\ IF r.H.hung
          THEN ret' = Hung /\ live' = live /\ custody' = custody
          ELSE /\ live' = IF r.result = NULL THEN live ELSE live \cup {r.result}
               /\ custody' = IF r.result = NULL THEN custody
                             ELSE [custody EXCEPT !.from = Put(@, r.result, k)]
               /\ ret' = [NoRet EXCEPT
                    !.op = "allocate", !.t = t, !.size = size, !.strategy = strategy,
                    !.aligned_size = align_size(size), !.result = r.result, !.via = r.via,
                    !.tag = IF r.result = NULL THEN "none"
                            ELSE r.H.blocks[ptr_to_block(r.result)].strategy,
                    !.block_size = IF r.result = NULL THEN 0
                                   ELSE r.H.blocks[ptr_to_block(r.result)].size,
                    !.usable = usable_size(r.H.blocks, r.result),
                    !.was_live = r.result \in live,
                    !.locked = r.H.locked])
  /\ other' = Rest(k)
  /\ nalloc' = nalloc + 1
  /\ UNCHANGED threadVars

\* pool.deallocate(p) on pool k by thread t, for a payload p the caller holds
\* and was returned by pool k
DeallocateOn(k, t, p) ==
  /\ ~hung /\ pending[t] = Idle
  /\ p \in live
  /\ custody.from[p] = k
  /\ Let(deallocate(View(k), t, p), LAMBDA H :
       /\ Commit(H)
       /\ IF H.hung
          THEN ret' = Hung /\ live' = live /\ custody' = custody
          ELSE /\ live' = live \ {p}
               /\ custody' = [from |-> Del(custody.from, p),
                              freed |-> Put(custody.freed, p, k)]
               /\ ret' = [NoRet EXCEPT !.op = "deallocate", !.t = t, !.ptr = p,
                                       !.locked = H.locked])
  /\ other' = Rest(k)
  /\ UNCHANGED <<nalloc, threadVars>>

\* Two pools after construction, each shared or exclusive
InitPair ==
  /\ \E ts \in BOOLEAN, tsQ \in BOOLEAN :
       Let(Constructed(ts), LAMBDA P :
         /\ Install(ConstructedBeside(P, tsQ))
         /\ other = PoolMembers(P))
  /\ live = {}
  /\ ret = NoRet
  /\ nalloc = 0
  /\ totals = NoTotals
  /\ pending = [t \in AllThreads |-> Idle]
  /\ workload = NoWorkload
  /\ words = <<>>
  /\ custody = NoCustody

\* A pool after construction, shared or exclusive, on a backing allocator
\* that places the chunks apart or back to back
InitMaint ==
  /\ \E ts \in BOOLEAN, c \in BOOLEAN : Install([Constructed(ts) EXCEPT !.contiguous = c])
  /\ live = {}
  /\ ret = NoRet
  /\ nalloc = 0
  /\ totals = NoTotals
  /\ pending = [t \in AllThreads |-> Idle]
  /\ workload = NoWorkload
  /\ words = <<>>
  /\ other = NoPool
  /\ custody = NoCustody

\* A shared pool after construction
InitShared ==
  /\ Install(Constructed(TRUE))
  /\ live = {}
  /\ ret = NoRet
  /\ nalloc = 0
  /\ totals = NoTotals
  /\ pending = [t \in AllThreads |-> Idle]
  /\ workload = NoWorkload
  /\ words = <<>>
  /\ other = NoPool
  /\ custody = NoCustody

(***************************************************************************)
(* The requests the callers make.  Requests are the sizes that reach the   *)
(* small slab, the segregated lists and best-fit under the default         *)
(* strategy; WideRequests are the sizes on both sides of every threshold   *)
(* of the dispatcher, of the class table, of a chunk's capacity and of the *)
(* machine word, under each of the four strategies.                        *)
(***************************************************************************)
Requests == {<<24, "BEST_FIT">>, <<300, "BEST_FIT">>, <<600, "BEST_FIT">>}
WideSizes ==
  {0, 24, 32, 33, 128, 129, 256, 257, 300, 512, 513, 600, 4096, 4097,
   POOL_SIZE - HEADER_SIZE, POOL_SIZE, SIZE_MAX - 15, SIZE_MAX - 14, SIZE_MAX}
WideRequests == WideSizes \X Strategies
MaintRequests ==
  {<<24, "BEST_FIT">>, <<100, "BEST_FIT">>, <<200, "BEST_FIT">>, <<300, "BEST_FIT">>,
   <<5000, "BEST_FIT">>}

Next ==
  \/ \E t \in Threads, r \in Requests : nalloc < MaxAllocs /\ Allocate(t, r[1], r[2])
  \/ \E t \in Threads, p \in live : Deallocate(t, p)
  \/ \E t \in Threads : Len(scope_stack) < MaxScopeDepth /\ BeginScope(t)
  \/ \E t \in Threads : EndScope(t)

Spec == Init /\ [][Next]_vars

NextWide ==
  \/ \E t \in Threads, r \in WideRequests : nalloc < MaxAllocsWide /\ Allocate(t, r[1], r[2])
  \/ \E t \in Threads, p \in live : Deallocate(t, p)
  \/ \E t \in Threads : Len(scope_stack) < MaxScopeDepthWide /\ BeginScope(t)
  \/ \E t \in Threads : EndScope(t)

SpecWide == Init /\ [][NextWide]_vars

\* Aligned requests: the sizes of scenario S4 and of the bench workload, sizes
\* around a chunk's capacity and around the largest size whose sum with the
\* alignment and the word still rounds without wrapping; the alignments are
\* the powers of two from alignof(max_align_t) = 16 up
AlignedSizes ==
  {0, 1, 100, 256, 1024, POOL_SIZE - HEADER_SIZE - 80, POOL_SIZE - HEADER_SIZE - 64,
   SIZE_MAX - 151, SIZE_MAX - 150, SIZE_MAX - 87, SIZE_MAX - 86, SIZE_MAX - 24, SIZE_MAX}
Alignments == {16, 32, 64, 128}

\* One thread with aligned and plain requests
NextAligned ==
  \/ \E t \in Threads, size \in AlignedSizes, a \in Alignments :
       nalloc < MaxAllocsAligned /\ AllocateAligned(t, size, a)
  \/ \E t \in Threads, p \in AlignedHeld : DeallocateAligned(t, p)
  \/ \E t \in Threads, r \in Requests : nalloc < MaxAllocsAligned /\ Allocate(t, r[1], r[2])
  \/ \E t \in Threads, p \in live \ Underlying : Deallocate(t, p)

SpecAligned == Init /\ [][NextAligned]_vars

\* One thread that interleaves calls on two pools; the requests reach the
\* small and the medium slab, the segregated lists and best-fit
PairRequests ==
  {<<24, "BEST_FIT">>, <<100, "BEST_FIT">>, <<300, "BEST_FIT">>, <<600, "BEST_FIT">>}
NextPair ==
  \/ \E k \in {0, 1}, t \in Threads, r \in PairRequests :
       nalloc < MaxAllocsPair /\ AllocateOn(k, t, r[1], r[2])
  \/ \E k \in {0, 1}, t \in Threads, p \in live : DeallocateOn(k, t, p)

SpecPair == InitPair /\ [][NextPair]_vars

\* One thread with explicit SEGREGATED requests, one size for each of the
\* eight classes
ClassRequests ==
  {<<SEGREGATED_CLASS_SIZES[i], "SEGREGATED">> : i \in 1..SEGREGATED_CLASS_COUNT}
NextClasses ==
  \/ \E t \in Threads, r \in ClassRequests :
       nalloc < MaxAllocsClasses /\ Allocate(t, r[1], r[2])
  \/ \E t \in Threads, p \in live : Deallocate(t, p)

SpecClasses == Init /\ [][NextClasses]_vars

\* Best-fit requests only, with aligned sizes above 512, deallocated in any
\* order; no scope is opened
RoundTripRequests == {<<600, "BEST_FIT">>, <<3000, "BEST_FIT">>, <<5000, "BEST_FIT">>}
NextRoundTrip ==
  \/ \E t \in Threads, r \in RoundTripRequests :
       nalloc < MaxAllocsRoundTrip /\ Allocate(t, r[1], r[2])
  \/ \E t \in Threads, p \in live : Deallocate(t, p)

SpecRoundTrip == Init /\ [][NextRoundTrip]_vars

\* A shared pool used by two threads with scopes: end_scope is interleaved
\* with the calls of the other thread between its lock section and each
\* round of its loop
NextScoped ==
  \/ \E t \in AllThreads, r \in Requests :
       nalloc < MaxAllocsScoped /\ AllocateAcquires(t, r[1], r[2])
  \/ \E t \in AllThreads : AllocateRecords(t)
  \/ \E t \in AllThreads, r \in Requests :
       nalloc < MaxAllocsScoped /\ AllocateLocked(t, r[1], r[2])
  \/ \E t \in AllThreads, p \in live : DeallocateUnregisters(t, p)
  \/ \E t \in AllThreads : DeallocateReleases(t)
  \/ \E t \in AllThreads, p \in live : DeallocateLocked(t, p)
  \/ \E t \in AllThreads : Len(scope_stack) < MaxScopeDepthWide /\ BeginScope(t)
  \/ \E t \in AllThreads : EndScopeTakes(t)
  \/ \E t \in AllThreads : EndScopeFrees(t)

SpecScoped == InitShared /\ [][NextScoped]_vars

\* Fair scheduling: a thread that is inside a call takes the next step of it
InCall(t) == pending[t] # Idle
\* The loop of end_scope goes on: EndScopeFrees(t) is enabled exactly while
\* the loop of thread t has a payload left and no call loops forever, and it
\* is the only step that changes pending[t] then, so this is WF_vars(EndScopeFrees(t))
InLoop(t) == pending[t].op = "end_scope" /\ ~hung
LoopGoesOn(t) ==
  \/ []<>(~InLoop(t))
  \/ []<><<InLoop(t) /\ pending'[t] # pending[t]>>_vars
SpecScopedFair ==
  /\ SpecScoped
  /\ \A t \in AllThreads :
       WF_vars(AllocateRecords(t)) /\ WF_vars(DeallocateReleases(t)) /\ LoopGoesOn(t)

\* Pool-based requests next to best-fit ones, with scopes
PoolRequests == {<<600, "POOL_BASED">>, <<5000, "POOL_BASED">>, <<5000, "BEST_FIT">>}

NextPool ==
  \/ \E t \in Threads, r \in PoolRequests : nalloc < MaxAllocsPool /\ Allocate(t, r[1], r[2])
  \/ \E t \in Threads, p \in live : Deallocate(t, p)
  \/ \E t \in Threads : Len(scope_stack) < MaxScopeDepthWide /\ BeginScope(t)
  \/ \E t \in Threads : EndScope(t)

SpecPool == Init /\ [][NextPool]_vars

\* One thread, with the calls that maintain the pool: reset, the release of
\* the magazines, and deallocate(nullptr).  The requests reach the three
\* slabs, the segregated lists and best-fit; one of 5000 bytes makes a
\* second chunk necessary.
NextMaint ==
  \/ \E t \in Threads, r \in MaintRequests : nalloc < MaxAllocsMaint /\ Allocate(t, r[1], r[2])
  \/ \E t \in Threads, p \in live : Deallocate(t, p)
  \/ \E t \in Threads : Len(scope_stack) < MaxScopeDepthWide /\ BeginScope(t)
  \/ \E t \in Threads : EndScope(t)
  \/ \E t \in Threads : Reset(t)
  \/ \E t \in Threads : DeallocateNull(t)
  \/ \E t \in Threads : ReleaseThreadCache(t)

SpecMaint == InitMaint /\ [][NextMaint]_vars

\* The threads of the process on one shared pool; a scope may be opened,
\* none is closed.  A thread merges its counters between runs of the
\* workloads, when no payload is held (total_bytes is the sum of the threads'
\* last_reported_bytes whenever they merge).
NextShared ==
  \/ \E t \in AllThreads, r \in Requests :
       nalloc < MaxAllocsShared /\ AllocateAcquires(t, r[1], r[2])
  \/ \E t \in AllThreads : AllocateRecords(t)
  \/ \E t \in AllThreads, r \in Requests :
       nalloc < MaxAllocsShared /\ AllocateLocked(t, r[1], r[2])
  \/ \E t \in AllThreads, p \in live : DeallocateUnregisters(t, p)
  \/ \E t \in AllThreads : DeallocateReleases(t)
  \/ \E t \in AllThreads, p \in live : DeallocateLocked(t, p)
  \/ \E t \in AllThreads : Len(scope_stack) < MaxScopeDepthWide /\ BeginScope(t)
  \/ \E t \in AllThreads : live = {} /\ MergeThreadStats(t)

SpecShared == InitShared /\ [][NextShared]_vars

(***************************************************************************)
(* Sanity of the model itself.                                             *)
(***************************************************************************)
TypeOK ==
  /\ thread_safe \in BOOLEAN
  /\ hung \in BOOLEAN
  /\ contiguous \in BOOLEAN
  /\ arena \in {0, 1}
  /\ \A a \in DOMAIN blocks :
       /\ blocks[a].size \in 0..SIZE_MAX
       /\ blocks[a].strategy \in Strategies
       /\ blocks[a].is_free \in BOOLEAN
  /\ \A a, b \in DOMAIN blocks : a < b => a + HEADER_SIZE <= b
  /\ \A a \in DOMAIN blocks : blocks[a].next \in DOMAIN blocks \cup {NULL}

(***************************************************************************)
(* Properties.                                                             *)
(***************************************************************************)
Returned == ret.op = "allocate" /\ ret.result # NULL
PayloadSize(p) == blocks[ptr_to_block(p)].size
InSlab(p, s) ==
  \E j \in 1..Len(slab_chunks[s]) :
     slab_chunks[s][j] <= ptr_to_block(p) /\ p + BLOCK_SIZE[s] <= slab_chunks[s][j] + CHUNK_SIZE
InPool(p) ==
  \E j \in 1..Len(memory_chunks) :
     memory_chunks[j] <= ptr_to_block(p) /\ p < memory_chunks[j] + POOL_SIZE

\* C1: allocate never returns a payload that is still live (returned earlier
\* and deallocated neither by the caller nor by end_scope), and the byte
\* ranges of any two live payloads are disjoint.
C1_LivePayloadsDistinct ==
  /\ Returned => ~ret.was_live
  /\ \A p, q \in live : p < q => p + PayloadSize(p) <= q

\* C2: a non-null payload returned by allocate(size, strategy) has a header
\* size (usable_size) of at least size.
C2_UsableAtLeastRequested ==
  Returned => ret.usable >= ret.size

\* C3: when rounding size up to a multiple of 16 overflows the word
\* (size > SIZE_MAX - 15), allocate returns null.
C3_OverflowReturnsNull ==
  ret.op = "allocate" /\ ret.size > SIZE_MAX - (ALIGNMENT - 1) => ret.result = NULL

\* C4: deallocate(p) on a payload recorded in a scope cohort removes p from
\* the cohort, in shared and in exclusive pools.
C4_DeallocateUnregisters ==
  ret.op = "deallocate" /\ ret.tracked_before => ~Tracked(scope_stack, ret.ptr)

\* C5: while the scope stack is non-empty, an allocate that returns a
\* payload appends it to the top cohort and records its lookup entry.
C5_AllocateRecordsInTopCohort ==
  Returned /\ ret.depth_before > 0 =>
    /\ scope_stack # <<>>
    /\ Last(scope_stack) # <<>>
    /\ Last(Last(scope_stack)) = ret.result
    /\ ret.result \in DOMAIN scope_lookup
    /\ scope_lookup[ret.result] =
         [scope_index |-> Len(scope_stack) - 1, position |-> Len(Last(scope_stack)) - 1]

\* C6: end_scope pops only the top cohort and deallocates each payload
\* recorded in it (none stays live, each block is free again); the payloads
\* recorded in the cohorts below stay live and stay recorded with a valid
\* lookup entry.
C6_EndScopePopsTopOnly ==
  ret.op = "end_scope" /\ ret.depth_before > 0 =>
    /\ scope_stack = Front(ret.stack_before)
    /\ \A p \in Members(Last(ret.stack_before)) :
         p \notin live /\ blocks[ptr_to_block(p)].is_free
    /\ \A i \in 1..Len(scope_stack) : \A j \in 1..Len(scope_stack[i]) :
         LET p == scope_stack[i][j]
         IN  /\ p \in live
             /\ p \in DOMAIN scope_lookup
             /\ scope_lookup[p] = [scope_index |-> i - 1, position |-> j - 1]

\* C7: a request with the default strategy BEST_FIT is served by aligned
\* size: <= 32 by the 32-byte slab, <= 128 by the 128-byte slab, <= 256 by
\* the 256-byte slab (tag FIXED_SIZE, size the slab's block size), <= 512 by
\* the segregated lists (tag SEGREGATED), above 512 by best-fit (tag
\* BEST_FIT).
C7_DefaultDispatch ==
  Returned /\ ret.strategy = "BEST_FIT" =>
    LET a == ret.aligned_size
        s == SlabFor(a)
    IN  IF a <= 256
        THEN /\ ret.via \in {"cache", "slab"}
             /\ ret.tag = "FIXED_SIZE"
             /\ ret.block_size = BLOCK_SIZE[s]
             /\ InSlab(ret.result, s)
        ELSE IF a <= 512
        THEN ret.via = "segregated" /\ ret.tag = "SEGREGATED" /\ InPool(ret.result)
        ELSE ret.via = "best_fit" /\ ret.tag = "BEST_FIT" /\ InPool(ret.result)

\* A default request of 129 bytes (aligned 144) is served by the 256-byte slab
C7_Witness ==
  /\ Returned /\ ret.strategy = "BEST_FIT" /\ ret.size = 129
  /\ ret.tag = "FIXED_SIZE" /\ ret.block_size = 256 /\ InSlab(ret.result, 3)

\* C8: explicit POOL_BASED, SEGREGATED and FIXED_SIZE requests are not
\* reclassified by size: POOL_BASED is served by allocate_from_pool for
\* every size; SEGREGATED from the class lists unless the aligned size
\* exceeds the largest class (4096), and then by best-fit; FIXED_SIZE above
\* 256 by best-fit from the general pool, tagged BEST_FIT.
C8_ExplicitDispatch ==
  Returned =>
    LET a == ret.aligned_size
    IN  /\ ret.strategy = "POOL_BASED" => ret.via = "pool" /\ ret.tag = "POOL_BASED"
        /\ ret.strategy = "SEGREGATED" /\ a <= 4096 =>
             /\ ret.via = "segregated" /\ ret.tag = "SEGREGATED"
             /\ ret.block_size = SEGREGATED_CLASS_SIZES[select_segregated_class(a)]
        /\ ret.strategy = "SEGREGATED" /\ a > 4096 =>
             ret.via = "best_fit" /\ ret.tag = "BEST_FIT"
        /\ ret.strategy = "FIXED_SIZE" /\ a > 256 =>
             ret.via = "best_fit" /\ ret.tag = "BEST_FIT" /\ InPool(ret.result)

\* An explicit SEGREGATED request above the largest class is served by best-fit
C8_Witness ==
  /\ Returned /\ ret.strategy = "SEGREGATED" /\ ret.aligned_size > 4096
  /\ ret.via = "best_fit" /\ ret.tag = "BEST_FIT"

\* C9 as stated: after a thread deallocates a FIXED_SIZE payload p1, its next
\* allocate for the same slab returns p1, whatever the magazine held.
C9_LifoReuseAlways ==
  Returned /\ ret.follows_free => ret.result = ret.freed_ptr

\* C9 as amended: after a thread deallocates a FIXED_SIZE payload p1 while
\* its magazine for that slab holds fewer blocks than the magazine limit,
\* its next allocate for the same slab returns p1.
C9_LifoReuseBelowLimit ==
  Returned /\ ret.follows_free /\ ret.freed_magazine < CACHE_LIMIT[ret.slab] =>
    ret.result = ret.freed_ptr

\* A block freed into a magazine that already held one block (and was below
\* its limit) comes back from the next allocate
C9_Witness ==
  /\ Returned /\ ret.follows_free
  /\ ret.freed_magazine > 0 /\ ret.freed_magazine < CACHE_LIMIT[ret.slab]
  /\ ret.result = ret.freed_ptr

\* C10: a default-strategy allocate whose aligned size is above 256 and at
\* most 512 returns a block tagged SEGREGATED of size exactly 512.
C10_SegregatedPromotion ==
  Returned /\ ret.strategy = "BEST_FIT" /\ ret.aligned_size > 256 /\ ret.aligned_size <= 512 =>
    ret.tag = "SEGREGATED" /\ ret.block_size = 512

\* Default requests of 257 bytes (aligned 272, a fresh class list) and of 512
\* bytes (the class size itself) come back as 512-byte SEGREGATED blocks
C10_Witness ==
  /\ Returned /\ ret.strategy = "BEST_FIT" /\ ret.size = 512
  /\ ret.tag = "SEGREGATED" /\ ret.block_size = 512

\* Every thread is between calls and no payload is held
AllFreed == live = {} /\ ~hung /\ \A t \in AllThreads : pending[t] = Idle
AllMerged ==
  \A t \in AllThreads :
     /\ stats[t].allocations = 0 /\ stats[t].deallocations = 0
     /\ stats[t].last_reported_bytes = stats[t].bytes_allocated

\* C11: once every allocated payload has been deallocated, by whichever
\* thread, every thread's bytes_allocated is zero, and so is total_bytes
\* once every thread has merged its counters.
C11_LiveBytesReturnToZero ==
  AllFreed /\ nalloc > 0 =>
    /\ \A t \in AllThreads : stats[t].bytes_allocated = 0
    /\ AllMerged => totals.total_bytes = 0

\* C12: after reset(), whatever preceded it, the free list and the size index
\* hold exactly one free BEST_FIT block per chunk, each spanning its whole
\* chunk; the scope stack, the scope lookup and every segregated list are
\* empty; the number of chunks is unchanged.
C12_ResetLeavesOneBlockPerChunk ==
  ret.op = "reset" =>
    LET chunks == Members(memory_chunks)
        listed == ListFrom(blocks, free_list, {})
    IN  /\ Len(memory_chunks) = ret.chunks_before
        /\ Len(listed) = Len(memory_chunks)
        /\ Members(listed) = chunks
        /\ Len(size_index) = Len(memory_chunks)
        /\ {size_index[i].block : i \in 1..Len(size_index)} = chunks
        /\ \A c \in chunks :
             /\ blocks[c].is_free
             /\ blocks[c].strategy = "BEST_FIT"
             /\ blocks[c].size = POOL_SIZE - HEADER_SIZE
        /\ scope_stack = <<>>
        /\ scope_lookup = <<>>
        /\ \A i \in 1..SEGREGATED_CLASS_COUNT : segregated_free_lists[i] = NULL

\* C13: deallocate(null) is a no-op: the free list, the size index, the
\* segregated lists, the magazines, the scope structures and every
\* statistics counter are what they were before the call (and so are the
\* headers, the slabs and the chunks).
C13_NullDeallocateIsNoOp ==
  [][ret'.op = "deallocate_null" =>
       UNCHANGED <<free_list, size_index, size_lookup, segregated_free_lists, thread_cache,
                   scope_stack, scope_lookup, active_scope_count, stats, totals,
                   blocks, slab_free_list, slab_chunks, memory_chunks>>]_vars

\* deallocate(null) was called on a pool with a payload held, a block in a
\* magazine and a scope open
C13_Witness ==
  /\ ret.op = "deallocate_null"
  /\ live # {}
  /\ \E s \in 1..3 : thread_cache[ret.t][s] # <<>>
  /\ scope_stack # <<>>
  /\ stats[ret.t].allocations > 0

\* C14: a BEST_FIT or POOL_BASED allocate that finds no block large enough
\* in the size index acquires exactly one fresh chunk and retries once; it
\* returns null when the aligned size exceeds a chunk's payload capacity,
\* and the payload otherwise.  No allocate call, on any path, acquires more
\* than one chunk of the general pool.
C14_OneChunkPerRequest ==
  ret.op = "allocate" =>
    LET acquired == Len(memory_chunks) - ret.chunks_before
    IN  /\ acquired \in {0, 1}
        /\ ret.via \in {"best_fit", "pool"} =>
             /\ acquired = IF ret.no_fit_before THEN 1 ELSE 0
             /\ ret.result = NULL <=>
                  ret.no_fit_before /\ ret.aligned_size > POOL_SIZE - HEADER_SIZE

\* Requests that found no block large enough: one of exactly a chunk's
\* capacity is served from the fresh chunk, a POOL_BASED one of a whole
\* chunk's size gets null after the chunk was added
C14_Witness ==
  /\ ret.op = "allocate" /\ ret.no_fit_before
  /\ Len(memory_chunks) = ret.chunks_before + 1
  /\ \/ ret.via = "best_fit" /\ ret.aligned_size = POOL_SIZE - HEADER_SIZE /\ ret.result # NULL
     \/ ret.via = "pool" /\ ret.aligned_size = POOL_SIZE /\ ret.result = NULL

\* C15: in an exclusive pool (thread_safe = false) no allocate, deallocate,
\* begin_scope, end_scope or reset call acquires the pool mutex.
C15_ExclusiveNeverLocks ==
  ~thread_safe /\ ret.op \in {"allocate", "deallocate", "begin_scope", "end_scope", "reset"} =>
    ~ret.locked

\* The structures the pool mutex guards
Guarded ==
  <<free_list, size_index, size_lookup, memory_chunks, segregated_free_lists,
    scope_stack, scope_lookup>>

\* C16: in a shared pool, for every interleaving of the threads' allocate and
\* deallocate calls, no allocate returns a payload that is live, the live
\* payloads do not overlap, and every step that changes the free list, the
\* size index, the chunk vector, the segregated lists or the scope
\* structures is made with the pool mutex held.
C16_SharedCallsAreSerialised ==
  [][/\ ret'.op = "allocate" /\ ret'.result # NULL =>
          /\ ret'.result \notin live
          /\ \A t \in AllThreads :
               pending'[t].op = "allocate" => pending'[t].ptr # ret'.result
     /\ \A p, q \in live' :
          p < q => p + blocks'[ptr_to_block(p)].size <= q
     /\ Guarded' # Guarded => ret'.locked]_vars

\* An allocate of thread 2 returned a payload under the pool mutex while
\* thread 1 was between taking its block and recording it in the open
\* scope, with another payload live
C16_Witness ==
  /\ thread_safe
  /\ ret.op = "allocate" /\ ret.t = 2 /\ ret.result # NULL /\ ret.locked
  /\ pending[1].op = "allocate" /\ pending[1].ptr # NULL
  /\ scope_stack # <<>>
  /\ Cardinality(live) >= 2

\* C17: when the threads of a shared pool have run their workloads of
\* allocate and deallocate calls, have freed everything they held and have
\* merged their statistics, no allocate has returned null and
\* total_allocations equals total_deallocations.
C17_WorkloadsBalance ==
  thread_safe /\ AllFreed /\ AllMerged =>
    /\ ~workload.failed
    /\ totals.total_allocations = totals.total_deallocations

\* Both threads have allocated and freed slab blocks of their own, all
\* MaxAllocsShared allocations are freed and merged
C17_Witness ==
  /\ thread_safe /\ AllFreed /\ AllMerged /\ ~workload.crossed
  /\ totals.total_allocations = MaxAllocsShared
  /\ totals.total_deallocations = MaxAllocsShared
  /\ \A t \in AllThreads : thread_cache[t][1] # <<>>

Reverse(seq) == [i \in 1..Len(seq) |-> seq[Len(seq) + 1 - i]]
BlocksOf(ptrs) == [i \in 1..Len(ptrs) |-> ptr_to_block(ptrs[i])]

\* C18: release_thread_cache() drains the calling thread's magazines to the
\* slabs: afterwards the three magazines of the caller are empty and every
\* block that was cached is on the free list of the slab of its size, once,
\* in front of the blocks the list held, none lost and none added.
C18_ReleaseDrainsMagazines ==
  ret.op = "release_thread_cache" =>
    \A s \in 1..3 :
       /\ thread_cache[ret.t][s] = <<>>
       /\ SlabLists[s] = Reverse(BlocksOf(ret.cache_before[s])) \o ret.slabs_before[s]
       /\ \A i \in 1..Len(ret.cache_before[s]) :
            /\ blocks[ptr_to_block(ret.cache_before[s][i])].is_free
            /\ blocks[ptr_to_block(ret.cache_before[s][i])].size = BLOCK_SIZE[s]

\* release_thread_cache() was called with a block in each of the three
\* magazines
C18_Witness ==
  /\ ret.op = "release_thread_cache"
  /\ \A s \in 1..3 : ret.cache_before[s] # <<>>

\* C19: for every size and every alignment a that is a power of two of at
\* least 16, a non-null p = allocate_aligned(size, a) is a multiple of a, the
\* payload stored in the word before p has a usable size of at least size
\* (and p's size bytes lie inside it), and deallocate_aligned(p) deallocates
\* exactly that payload.
C19_AlignedAllocation ==
  /\ ret.op = "allocate_aligned" /\ ret.result # NULL =>
       /\ ret.result % ret.alignment = 0
       /\ words[ret.result - POINTER_SIZE] = ret.ptr
       /\ ret.ptr \in live /\ ~ret.was_live
       /\ ret.usable >= ret.size
       /\ ret.ptr + POINTER_SIZE <= ret.result
       /\ ret.result + ret.size <= ret.ptr + ret.usable
  /\ ret.op = "deallocate_aligned" =>
       /\ ret.result \in ret.live_before
       /\ ret.result + POINTER_SIZE <= ret.ptr
       /\ ret.ptr < ret.result + ret.block_size
       /\ live = ret.live_before \ {ret.result}
       /\ blocks[ptr_to_block(ret.result)].is_free

\* The chunks, of the general pool and of the slabs, that contain address p
ChunksAround(p) ==
  {memory_chunks[j] : j \in {i \in 1..Len(memory_chunks) :
      memory_chunks[i] <= p /\ p < memory_chunks[i] + POOL_SIZE}}
  \cup UNION {{slab_chunks[s][j] : j \in {i \in 1..Len(slab_chunks[s]) :
      slab_chunks[s][i] <= p /\ p < slab_chunks[s][i] + CHUNK_SIZE}} : s \in 1..3}

\* C20: every payload allocate returns, on the slab, segregated, best-fit
\* (with or without split) and pool paths, lies in a chunk whose base is
\* 16-byte aligned, at an offset from that base that is a multiple of 16.
C20_PayloadsAligned ==
  Returned =>
    /\ ChunksAround(ret.result) # {}
    /\ \A c \in ChunksAround(ret.result) :
         c % ALIGNMENT = 0 /\ (ret.result - c) % ALIGNMENT = 0

\* A best-fit request of 600 bytes served from the remainder of a split, and
\* so not at the start of its chunk
C20_Witness ==
  /\ Returned /\ ret.via = "best_fit" /\ ret.size = 600
  /\ \E c \in ChunksAround(ret.result) : ret.result > c + HEADER_SIZE

\* C21: every payload allocate returns lies in a chunk of the pool that was
\* called or of one of its three slab allocators (owns_ptr holds), also when
\* the thread interleaves calls on two pools; a fixed-size block freed to one
\* pool is not handed out by the other.
C21_PayloadsOwnedByTheirPool ==
  Returned =>
    /\ owns_ptr(Cur, ret.result)
    /\ ret.tag = "FIXED_SIZE" /\ ret.result \in DOMAIN custody.freed =>
         custody.freed[ret.result] = arena

\* The blocks of the general pool: the headers met when each chunk is walked
\* from its base, every block followed by the one that starts where it ends
\* (a header inside the payload of a block is no block).  Reach doubles the
\* stride of the walk in every round: J takes a header to the one 2^k blocks
\* further on, or to the address where the walk leaves the headers (a walk
\* runs on into a chunk that starts where the chunk ends).
\* Table(f) is f, as the table of its values
Table(f) == f @@ <<>>
RECURSIVE Reach(_, _)
Reach(R, J) ==
  Let(R \cup ({J[a] : a \in R} \cap DOMAIN J), LAMBDA further :
    IF further = R THEN R
    ELSE Reach(further,
               Table([a \in DOMAIN J |-> IF J[a] \in DOMAIN J THEN J[J[a]] ELSE J[a]])))
Walk(blks, chunk) ==
  LET headers == {a \in DOMAIN blks : chunk <= a}
  IN  IF chunk \notin headers THEN {}
      ELSE Reach({chunk}, Table([a \in headers |-> a + HEADER_SIZE + blks[a].size]))
\* The chunks are walked in the order of their addresses; a chunk whose base
\* lies inside a block that began in the chunk before it has no walk of its own
RECURSIVE WalkChunks(_, _, _, _)
WalkChunks(blks, chunks, i, met) ==
  IF i > Len(chunks) THEN met
  ELSE WalkChunks(blks, chunks, i + 1,
         IF \E b \in met : b < chunks[i] /\ chunks[i] < b + HEADER_SIZE + blks[b].size
         THEN met
         ELSE met \cup Walk(blks, chunks[i]))
PoolBlocks == WalkChunks(blocks, memory_chunks, 1, {})
FreeBestFit == {a \in PoolBlocks : blocks[a].is_free /\ blocks[a].strategy = "BEST_FIT"}
EntriesOf(a) == {i \in 1..Len(size_index) : size_index[i].block = a}
Quiet == ~hung /\ \A t \in AllThreads : pending[t] = Idle

\* C22: after an operation has returned, the size index and the free blocks
\* tagged BEST_FIT are in bijection: each such block has exactly one entry,
\* keyed by its size, and size_lookup resolves to that entry; the index
\* holds no entry for any other block.
C22_SizeIndexBijection ==
  Quiet =>
    /\ \A a \in FreeBestFit :
         /\ Cardinality(EntriesOf(a)) = 1
         /\ \A i \in EntriesOf(a) :
              /\ size_index[i].size = blocks[a].size
              /\ a \in DOMAIN size_lookup
              /\ size_lookup[a] = size_index[i].id
    /\ \A i \in 1..Len(size_index) : size_index[i].block \in FreeBestFit
    /\ DOMAIN size_lookup = FreeBestFit

\* The best-fit free list, followed through next from its head
FreeList == ListFrom(blocks, free_list, {})

\* C23: in every reachable state the best-fit free list, followed through
\* next from its head, visits blocks in strictly increasing address order
\* (so it has no cycle and holds no block twice).
C23_FreeListAddressOrdered ==
  \A i \in 1..Len(FreeList) :
     blocks[FreeList[i]].next # NULL => FreeList[i] < blocks[FreeList[i]].next

\* Two free BEST_FIT blocks of the free list of which one ends where the
\* header of the other begins
AdjacentFree ==
  {pair \in Members(FreeList) \X Members(FreeList) :
     /\ blocks[pair[1]].is_free /\ blocks[pair[1]].strategy = "BEST_FIT"
     /\ blocks[pair[2]].is_free /\ blocks[pair[2]].strategy = "BEST_FIT"
     /\ pair[1] + HEADER_SIZE + blocks[pair[1]].size = pair[2]}

\* C24: after a deallocate has returned, the best-fit free list holds no two
\* free BEST_FIT blocks that are physically adjacent.
C24_NoAdjacentFreeBlocks ==
  ret.op = "deallocate" => AdjacentFree = {}

\* The free structures: the best-fit free list, the segregated class lists,
\* the slab free lists (each followed through next from its head) and the
\* magazines of the threads, as sequences of blocks
SegregatedLists ==
  [i \in 1..SEGREGATED_CLASS_COUNT |-> ListFrom(blocks, segregated_free_lists[i], {})]

\* The blocks of segregated class list i as a set (the list may be long)
OnSegregatedList(i) ==
  IF segregated_free_lists[i] \notin DOMAIN blocks THEN {}
  ELSE Reach({segregated_free_lists[i]}, Table([a \in DOMAIN blocks |-> blocks[a].next]))
Magazines ==
  [k \in 1..(3 * Cardinality(AllThreads)) |->
     BlocksOf(thread_cache[((k - 1) \div 3) + 1][((k - 1) % 3) + 1])]
LinkedStructures == <<FreeList>> \o SegregatedLists \o SlabLists
FreeStructures == LinkedStructures \o Magazines

\* Where the blocks are: <<structure, position, block>>
Placements ==
  UNION {{<<k, i, FreeStructures[k][i]>> : i \in 1..Len(FreeStructures[k])} :
           k \in 1..Len(FreeStructures)}

\* C25: in every reachable state no block is on more than one free
\* structure (the best-fit free list, a segregated class list, a slab free
\* list, a thread's magazine) and none is twice on one: no two places hold
\* the same block, and every linked list ends at null instead of running
\* back into itself.
C25_FreeStructuresDisjoint ==
  /\ \A x, y \in Placements : x[3] = y[3] => x = y
  /\ \A k \in 1..Len(LinkedStructures) :
       LinkedStructures[k] # <<>> => blocks[Last(LinkedStructures[k])].next = NULL

Covering(from, to) ==
  {z \in Members(FreeList) :
     /\ blocks[z].is_free /\ blocks[z].strategy = "BEST_FIT"
     /\ z <= from /\ to <= z + HEADER_SIZE + blocks[z].size}

\* C28: when deallocate frees a BEST_FIT block whose neighbour carved from
\* the same free block is free already (the block carved after it, or the
\* block carved before it while the remainder after both is free), the free
\* list afterwards holds one free BEST_FIT block that covers both, of at least
\* the two payload sizes plus one header, and no other block of the free
\* list begins inside it.
C28_SplitThenCoalesce ==
  ret.op = "deallocate" /\ ret.span.later =>
    /\ Cardinality(Covering(ret.span.from, ret.span.to)) = 1
    /\ \A z \in Covering(ret.span.from, ret.span.to) :
         /\ blocks[z].size >= ret.span.to - ret.span.from - HEADER_SIZE
         /\ \A a \in Members(FreeList) :
              ~(z < a /\ a < z + HEADER_SIZE + blocks[z].size)

\* C29: the strategy tag is sticky for BEST_FIT, POOL_BASED, SEGREGATED and
\* FIXED_SIZE alike: the block of a payload that deallocate has just freed
\* carries the tag it had while allocated, and an allocate that returns the
\* payload freed by the call before it returns it with that tag.
C29_StrategyTagSticky ==
  /\ ret.op = "deallocate" /\ ret.tag_before \in Strategies =>
       blocks[ptr_to_block(ret.ptr)].strategy = ret.tag_before
  /\ Returned /\ ret.freed_tag \in Strategies =>
       ret.tag = ret.freed_tag

\* C30: no magazine of any thread ever holds more blocks than its cap, and a
\* deallocate of a FIXED_SIZE block that finds the magazine of its slab at
\* the cap leaves the magazine at the cap and puts the block at the head of
\* the slab's free list.
C30_MagazinesCapped ==
  /\ \A t \in AllThreads : \A s \in 1..3 : Len(thread_cache[t][s]) <= CACHE_LIMIT[s]
  /\ ret.op = "deallocate" /\ ret.slab # 0 /\ ret.magazine_before >= CACHE_LIMIT[ret.slab] =>
       /\ Len(thread_cache[ret.t][ret.slab]) = ret.magazine_before
       /\ slab_free_list[ret.slab] = ptr_to_block(ret.ptr)
       /\ blocks[ptr_to_block(ret.ptr)].is_free

\* A deallocate found its magazine full and the block went to the slab,
\* whose free list had been emptied by the allocations before
C30_Witness ==
  /\ ret.op = "deallocate" /\ ret.slab # 0
  /\ ret.magazine_before = CACHE_LIMIT[ret.slab]
  /\ Len(thread_cache[ret.t][ret.slab]) = CACHE_LIMIT[ret.slab]
  /\ slab_free_list[ret.slab] = ptr_to_block(ret.ptr)
  /\ live = {}

\* C31: a best-fit allocation splits the block b it chose if and only if b
\* had at least aligned_size + HEADER_SIZE + 32 bytes. After a split b has
\* aligned_size bytes and the remainder, at payload(b) + aligned_size, is a
\* free BEST_FIT block of the free list with at least 32 bytes, and
\* aligned_size + HEADER_SIZE + its size is the size b had; without a split
\* b keeps its size.
C31_BestFitSplit ==
  Returned /\ ret.via = "best_fit" /\ ret.result # NULL =>
    LET before == ret.choice.chosen_size
        remainder == ret.result + ret.aligned_size
    IN  IF before >= ret.aligned_size + HEADER_SIZE + MIN_SPLIT_PAYLOAD
        THEN /\ ret.block_size = ret.aligned_size
             /\ remainder \in Members(FreeList)
             /\ blocks[remainder].is_free /\ blocks[remainder].strategy = "BEST_FIT"
             /\ blocks[remainder].size >= MIN_SPLIT_PAYLOAD
             /\ ret.aligned_size + HEADER_SIZE + blocks[remainder].size = before
        ELSE ret.block_size = before

\* A best-fit allocation split a block that was not the only free block, and
\* the remainder went back on the free list between its neighbours
C31_Witness ==
  /\ Returned /\ ret.via = "best_fit" /\ ret.result # NULL
  /\ ret.choice.chosen_size >= ret.aligned_size + HEADER_SIZE + MIN_SPLIT_PAYLOAD
  /\ ret.block_size = ret.aligned_size
  /\ Len(FreeList) >= 2
  /\ ret.result + ret.aligned_size \in Members(FreeList)

\* C32: a pool allocation returns the block of the first size-index entry
\* that is large enough, a free block of the least sufficient size, and
\* detaches it without splitting: the block returned has the size it had
\* while free, and the free list afterwards is the free list before without
\* that block, so no remainder was created.
C32_PoolTakesWholeBlock ==
  Returned /\ ret.via = "pool" /\ ret.result # NULL =>
    /\ ptr_to_block(ret.result) = ret.choice.first
    /\ ret.choice.chosen_fits
    /\ \A sz \in ret.choice.fit_sizes : ret.choice.chosen_size <= sz
    /\ ret.block_size = ret.choice.chosen_size
    /\ Fitting(Cur, 0) = ret.choice.free \ {ptr_to_block(ret.result)}

\* C33: a segregated refill of class i cuts the block it takes into as
\* many blocks of class_size as fit, each with its own header tagged
\* SEGREGATED, and puts them on list i in front of what the list held (the
\* allocate that asked for the refill pops the last one cut); a remainder of
\* more than HEADER_SIZE bytes goes on the best-fit free list as a free
\* BEST_FIT block, a shorter one is left alone, so blocks, headers and
\* remainder add up to the block taken apart from at most HEADER_SIZE bytes.
C33_RefillPartitionsChunk ==
  Returned /\ ret.refill.class # 0 =>
    LET i == ret.refill.class
        class_size == SEGREGATED_CLASS_SIZES[i]
        stride == class_size + HEADER_SIZE
        total == ret.refill.taken + HEADER_SIZE
        n == total \div stride
        at(k) == ret.refill.chunk + k * stride
        cursor == at(n)
        rest == total - n * stride
    IN  /\ n >= 1 /\ rest < stride
        /\ \A k \in 0..(n - 1) :
             /\ at(k) \in DOMAIN blocks
             /\ blocks[at(k)].size = class_size
             /\ blocks[at(k)].strategy = "SEGREGATED"
        /\ ret.result = data(at(n - 1)) /\ ~blocks[at(n - 1)].is_free
        /\ segregated_free_lists[i] = IF n = 1 THEN ret.refill.old ELSE at(n - 2)
        /\ \A k \in 0..(n - 2) :
             /\ blocks[at(k)].is_free
             /\ blocks[at(k)].next = IF k = 0 THEN ret.refill.old ELSE at(k - 1)
        /\ IF rest > HEADER_SIZE
           THEN /\ cursor \in Members(FreeList)
                /\ blocks[cursor].is_free /\ blocks[cursor].strategy = "BEST_FIT"
                /\ n * stride + HEADER_SIZE + blocks[cursor].size = total
           ELSE /\ cursor \notin Members(FreeList)
                /\ total - n * stride <= HEADER_SIZE

\* A refill of the 2048-byte class cut three blocks, handed out the last
\* one and put the remainder of 1952 bytes on the best-fit free list
C33_Witness ==
  /\ Returned /\ ret.refill.class = 7
  /\ ret.refill.taken + HEADER_SIZE = 3 * (2048 + HEADER_SIZE) + 1952
  /\ ret.result = data(ret.refill.chunk + 2 * (2048 + HEADER_SIZE))
  /\ segregated_free_lists[7] = ret.refill.chunk + 2048 + HEADER_SIZE
  /\ ret.refill.chunk + 3 * (2048 + HEADER_SIZE) \in Members(FreeList)

\* C34: the scope lookup and the cohorts agree: every lookup entry
\* p -> (scope_index, position) names a slot of the scope stack that holds p,
\* and every slot of every cohort holds a payload whose lookup entry names
\* that slot; so after a swap-with-back removal the entry of the moved tail
\* names its new position.
C34_ScopeLookupConsistent ==
  /\ \A p \in DOMAIN scope_lookup :
       /\ scope_lookup[p].scope_index < Len(scope_stack)
       /\ scope_lookup[p].position < Len(scope_stack[scope_lookup[p].scope_index + 1])
       /\ scope_stack[scope_lookup[p].scope_index + 1][scope_lookup[p].position + 1] = p
  /\ \A i \in 1..Len(scope_stack) : \A j \in 1..Len(scope_stack[i]) :
       /\ scope_stack[i][j] \in DOMAIN scope_lookup
       /\ scope_lookup[scope_stack[i][j]] = [scope_index |-> i - 1, position |-> j - 1]

\* C35: in a shared pool, however end_scope by one thread and deallocate(p)
\* by another are interleaved, a payload p of the cohort being ended is
\* released once: when the loop of end_scope releases p, p is still held and
\* its block is not free already.
C35_CohortReleasedOnce ==
  ret.op = "end_scope_frees" => ret.was_live /\ ~ret.already_free

\* C36: deadlock freedom in a shared pool: no call holds the pool mutex when
\* it releases a fixed-size block towards its slab, no call loops forever
\* holding the pool mutex, and under fair scheduling every call in progress
\* (an allocate or deallocate between its two lock sections, an end_scope in
\* its loop) returns.
C36_DeadlockFree ==
  /\ [](~ret.nested /\ ~hung)
  /\ \A t \in AllThreads : InCall(t) ~> ~InCall(t)

InOneChunk(a) ==
  \E i \in 1..Len(memory_chunks) :
    memory_chunks[i] <= a /\ a + HEADER_SIZE + blocks[a].size <= memory_chunks[i] + POOL_SIZE

\* C39: coalescing never merges blocks of different chunks: in every
\* reachable state each free block of the best-fit list and of the segregated
\* lists lies entirely inside one chunk, also when the chunks are placed back
\* to back.
C39_FreeBlocksInsideChunks ==
  /\ \A a \in Members(FreeList) : InOneChunk(a)
  /\ \A i \in 1..SEGREGATED_CLASS_COUNT : \A a \in OnSegregatedList(i) : InOneChunk(a)

====
